---- MODULE Spec2Model ----
(***************************************************************************)
(* Model of the response-interception helper of the Playwright test suite  *)
(* (tests/support/interception/interception.ts and its older variant),     *)
(* together with the page it drives: the response listeners registered on  *)
(* the page, the click issued on a locator, the responses the browser      *)
(* observes and the ambient test timeout.                                  *)
(***************************************************************************)
EXTENDS Integers, Sequences, FiniteSets, TLC

VARIABLES
    variant,            \* which Interception class is under test
    page,               \* Interception.page, the only field of the coordinator
    dom,                \* what the click found at the locator
    intercepts,         \* argument: the Intercept[] of the call
    clickAction,        \* argument: the trigger target
    waitForResponses,   \* argument: "omitted", "true" or "false"
    ip,                 \* position in Body: 0 not called, Len(Body)+1 ended
    waits,              \* responsePromises: one page.waitForResponse per spec
    clickState,         \* the promise of locator(...).click()
    clickCalls,         \* number of click() calls issued by the coordinator
    clicks,             \* number of clicks the page performed
    invoked,            \* number of invocations of a callable trigger target
    clickAt,            \* Len(traffic) when the click was issued
    armCalls,           \* number of page.waitForResponse calls issued
    endedAt,            \* Len(traffic) when the call returned or threw
    traffic,            \* the responses the page has observed, in order
    clock,              \* ticks elapsed since the test step started
    result,             \* outcome of the call
    mSpec,              \* predicate:     the Intercept under test
    mResp,              \* predicate:     the response under test
    mResult,            \* predicate:     what the predicate returned
    prev,               \* caller: the earlier interceptions calls of the test
    cpc,                \* caller: position in the steps of the caller
    cargs,              \* caller: the arguments the caller was given
    events,             \* caller: what the caller did and saw, in order
    app,                \* caller: the application as the page shows it
    cres,               \* caller: outcome of the caller
    createdId           \* caller: the module-level createdId

vars == <<variant, page, dom, intercepts, clickAction, waitForResponses, ip,
          waits, clickState, clickCalls, clicks, invoked, clickAt, armCalls,
          endedAt, traffic, clock, result, mSpec, mResp, mResult,
          prev, cpc, cargs, events, app, cres, createdId>>

callVars == <<variant, page, dom, intercepts, clickAction, waitForResponses, ip,
              waits, clickState, clickCalls, clicks, invoked, clickAt,
              armCalls, endedAt, traffic, clock, result>>

matcherVars == <<mSpec, mResp, mResult>>

callerVars == <<prev, cpc, cargs, events, app, cres, createdId>>

\* everything a step of interceptions leaves alone
otherVars == <<matcherVars, callerVars>>

----------------------------------------------------------------------------
(* Bounds *)

MaxSpecs == 2          \* longest Intercept[] passed to one call
MaxResponses == 3      \* responses the page observes in one behaviour
TimeoutTicks == 1      \* ticks after which the ambient timeout has elapsed
MaxUrlLen == 3         \* longest response URL given to the predicate
MaxCalls == 2          \* interceptions calls a test makes one after the other
MaxTraffic == 4        \* responses the page observes during one test function
MaxTasks == 2          \* tasks the next-month view shows when the teardown starts
MaxTextLen == 4        \* longest text the alert shows

----------------------------------------------------------------------------
(* URLs are sequences of symbols; "h" stands for the host part, "l" for     *)
(* /api/leave, "t" for /api/tasks and "q" for a query string.               *)

Methods == {"GET", "POST", "PUT"}

Variants == {"current", "older"}

LeaveUrl == <<"l">>

Specs ==
    { [url |-> LeaveUrl, method |-> "POST", statusCode |-> 201],
      [url |-> LeaveUrl, method |-> "GET", statusCode |-> 200] }

Responses ==
    { [url |-> <<"h", "l">>, method |-> "POST", status |-> 201],
      [url |-> <<"h", "l", "q">>, method |-> "GET", status |-> 200],
      [url |-> <<"h", "t">>, method |-> "GET", status |-> 200] }

NoResponse == [url |-> <<>>, method |-> "", status |-> 0]

\* inputs of the predicate: every URL over two symbols up to a length
UrlSymbols == {"h", "l"}
StatusCodes == {200, 201}
UrlStrings(n) == UNION { [1..k -> UrlSymbols] : k \in 0..n }
MatcherSpecs ==
    [url : UrlStrings(MaxUrlLen - 1), method : Methods, statusCode : StatusCodes]
MatcherResponses ==
    [url : UrlStrings(MaxUrlLen), method : Methods, status : StatusCodes]

SeqsUpTo(S, n) == UNION { [1..k -> S] : k \in 0..n }

InterceptLists == SeqsUpTo(Specs, MaxSpecs)

Undefined == [kind |-> "undefined", sel |-> ""]
Selector(s) == [kind |-> "string", sel |-> s]
Callable == [kind |-> "function", sel |-> ""]

ClickActions == {Undefined, Selector(""), Selector("#btn"), Callable}

DomStates == {"actionable", "missing", "hidden"}

\* the page has not been asked for the element yet
Unqueried == "unqueried"

----------------------------------------------------------------------------
(* The response predicate of page.waitForResponse *)

StartsWith(s, sub) == Len(sub) <= Len(s) /\ SubSeq(s, 1, Len(sub)) = sub

\* String.prototype.includes on symbol sequences
Includes(s, sub) ==
    \E k \in 0..(Len(s) - Len(sub)) : SubSeq(s, k + 1, k + Len(sub)) = sub

Matches(resp, spec) ==
    /\ Includes(resp.url, spec.url)
    /\ resp.method = spec.method
    /\ resp.status = spec.statusCode

----------------------------------------------------------------------------
(* The body of Interception.interceptions, in program order *)

BodyClickFirst == <<"click", "arm", "await">>

Body == <<"arm", "click", "await">>

Stmt == IF ip \in 1..Len(Body) THEN Body[ip] ELSE "none"

Ended == ip = Len(Body) + 1

\* JavaScript truthiness of the clickAction argument
Truthy(ca) == ca.kind = "function" \/ (ca.kind = "string" /\ ca.sel # "")

AlwaysClick(v, ca) == TRUE

NeverClick(v, ca) == FALSE

\* does the body perform the click for this argument
ClickGuard(v, ca) == IF v = "current" THEN Truthy(ca) ELSE TRUE

DocumentedDefault == TRUE

DefaultWaitForResponses == FALSE

ReturnResponses(v, arg) ==
    IF v = "older" THEN FALSE
    ELSE IF arg = "omitted" THEN DefaultWaitForResponses
    ELSE arg = "true"

\* a wait registered when the page had observed n responses
PendingWait(n) ==
    [state |-> "pending", resp |-> NoResponse, at |-> 0, armed |-> n]

\* a coordinator that remembers the responses it has seen: a wait for a spec
\* that an earlier response matches is born resolved with that response
RegisterWaitsCached(specs, n) ==
    [i \in 1..Len(specs) |->
        IF \E k \in 1..n : Matches(traffic[k], specs[i])
        THEN [state |-> "resolved",
              resp |-> traffic[CHOOSE k \in 1..n : Matches(traffic[k], specs[i])],
              at |-> CHOOSE k \in 1..n : Matches(traffic[k], specs[i]),
              armed |-> n]
        ELSE PendingWait(n)]

RegisterWaits(specs, n) == [i \in 1..Len(specs) |-> PendingWait(n)]

\* a listener that is never removed: every matching response settles the wait
DeliverLast(w, specs, r, k) ==
    [i \in 1..Len(w) |->
        IF w[i].state \in {"pending", "resolved"} /\ Matches(r, specs[i])
        THEN [w[i] EXCEPT !.state = "resolved", !.resp = r, !.at = k]
        ELSE w[i]]

\* the page dispatches response r, the k-th it observed, to the listeners
Deliver(w, specs, r, k) ==
    [i \in 1..Len(w) |->
        IF w[i].state = "pending" /\ Matches(r, specs[i])
        THEN [w[i] EXCEPT !.state = "resolved", !.resp = r, !.at = k]
        ELSE w[i]]

SomeResolved(w) == \E i \in 1..Len(w) : w[i].state = "resolved"

\* Promise.all: fulfilled once every promise is, with the values in order
AllResolved(w) == \A i \in 1..Len(w) : w[i].state = "resolved"

AnyRejected(w) == \E i \in 1..Len(w) : w[i].state = "rejected"

\* position of wait i when the waits are ordered by the time they settled
Rank(w, i) ==
    Cardinality({j \in 1..Len(w) :
        w[j].at < w[i].at \/ (w[j].at = w[i].at /\ j < i)}) + 1

GatherByArrival(w) ==
    [k \in 1..Len(w) |-> w[CHOOSE i \in 1..Len(w) : Rank(w, i) = k].resp]

Gather(w) == [i \in 1..Len(w) |-> w[i].resp]

NoResult == [kind |-> "none", list |-> <<>>, err |-> ""]
This == [kind |-> "this", list |-> <<>>, err |-> ""]
ResponseList(l) == [kind |-> "responses", list |-> l, err |-> ""]
Error(e) == [kind |-> "error", list |-> <<>>, err |-> e]

NoTimeout == FALSE

\* the ambient test timeout (timeout: 10 * 2000) has elapsed
TimeoutElapsed == clock >= TimeoutTicks

\* no event is dispatched while synchronous code runs: from the call to the
\* first await (the click) nothing can interleave
InSyncSection == Stmt = "arm" \/ (Stmt = "click" /\ clickState = "none")

\* some waitForResponse listener is still registered on the page
Listening == \E i \in 1..Len(waits) : waits[i].state = "pending"

\* the states in which click() can find the target of locator(ca): only
\* "#btn" addresses an element of the page
Found(ca) == IF ca = Selector("#btn") THEN DomStates ELSE {"missing"}

\* locator(ca) addresses an element that can be clicked
Resolves(ca, d) == ca = Selector("#btn") /\ d = "actionable"

\* the error of locator(clickAction).click() for a target that cannot be clicked
ClickError(ca, d) ==
    IF ca.kind # "string" THEN "InvalidSelector"
    ELSE IF d = "hidden" THEN "ElementNotActionable"
    ELSE "ElementNotFound"

----------------------------------------------------------------------------
(* Initial state: the coordinator is constructed on a page, nothing called *)

InitCall ==
    /\ variant \in Variants
    /\ page = "page"
    /\ dom = Unqueried
    /\ intercepts = <<>>
    /\ clickAction = Undefined
    /\ waitForResponses = "omitted"
    /\ ip = 0
    /\ waits = <<>>
    /\ clickState = "none"
    /\ clickCalls = 0
    /\ clicks = 0
    /\ invoked = 0
    /\ clickAt = 0
    /\ armCalls = 0
    /\ endedAt = 0
    /\ traffic = <<>>
    /\ clock = 0
    /\ result = NoResult

\* no caller: the coordinator is called directly
\* let createdId: number, before any assignment: no entity has this id
Unset == 0
NoArgs == [kind |-> "none"]
NoApp == [kind |-> "none"]

InitCaller ==
    /\ prev = <<>>
    /\ cpc = 0
    /\ cargs = NoArgs
    /\ events = <<>>
    /\ app = NoApp
    /\ cres = NoResult
    /\ createdId = Unset

Init ==
    /\ InitCall
    /\ InitCaller
    /\ mSpec = [url |-> <<>>, method |-> "GET", statusCode |-> 200]
    /\ mResp = NoResponse
    /\ mResult = "unset"

\* interceptions(specs, ca, wfr) is called
Call ==
    /\ ip = 0
    /\ \E specs \in InterceptLists, ca \in ClickActions,
          wfr \in {"omitted", "true", "false"} :
        /\ variant = "older" => wfr = "omitted"
        /\ intercepts' = specs
        /\ clickAction' = ca
        /\ waitForResponses' = wfr
    /\ ip' = 1
    /\ UNCHANGED <<variant, page, dom, waits, clickState, clickCalls, clicks,
                   invoked, clickAt, armCalls, endedAt, traffic, clock,
                   result>>
    /\ UNCHANGED otherVars

\* intercepts.map(spec => this.page.waitForResponse(...))
Arm ==
    /\ Stmt = "arm"
    /\ waits' = RegisterWaits(intercepts, Len(traffic))
    /\ ip' = ip + 1
    /\ armCalls' = armCalls + Len(intercepts)
    /\ UNCHANGED <<variant, page, dom, intercepts, clickAction,
                   waitForResponses, clickState, clickCalls, clicks, invoked,
                   clickAt, endedAt, traffic, clock, result>>
    /\ UNCHANGED otherVars

\* if (clickAction) { await this.page.locator(clickAction).click() }: the call
IssueClick ==
    /\ Stmt = "click"
    /\ clickState = "none"
    /\ ClickGuard(variant, clickAction)
    /\ clickState' = "pending"
    /\ clickCalls' = clickCalls + 1
    /\ clickAt' = Len(traffic)
    /\ dom' \in Found(clickAction)
    /\ UNCHANGED <<variant, page, intercepts, clickAction,
                   waitForResponses, ip, waits, clicks, invoked, armCalls,
                   endedAt, traffic, clock, result>>
    /\ UNCHANGED otherVars

\* if (clickAction) is false: the click is skipped
SkipClick ==
    /\ Stmt = "click"
    /\ clickState = "none"
    /\ ~ClickGuard(variant, clickAction)
    /\ ip' = ip + 1
    /\ UNCHANGED <<variant, page, dom, intercepts, clickAction,
                   waitForResponses, waits, clickState, clickCalls, clicks,
                   invoked, clickAt, armCalls, endedAt, traffic, clock,
                   result>>
    /\ UNCHANGED otherVars

\* the element is there and actionable: the click is performed and resolves
ClickDone ==
    /\ Stmt = "click"
    /\ clickState = "pending"
    /\ Resolves(clickAction, dom)
    /\ clickState' = "done"
    /\ clicks' = clicks + 1
    /\ ip' = ip + 1
    /\ UNCHANGED <<variant, page, dom, intercepts, clickAction,
                   waitForResponses, waits, clickCalls, invoked, clickAt,
                   armCalls, endedAt, traffic, clock, result>>
    /\ UNCHANGED otherVars

\* a coordinator that clicks again when the click rejects
ClickFailRetry ==
    /\ Stmt = "click"
    /\ clickState = "pending"
    /\ \/ clickAction.kind # "string"
       \/ ~Resolves(clickAction, dom) /\ TimeoutElapsed
    /\ IF clickCalls < 2
       THEN /\ clickCalls' = clickCalls + 1
            /\ UNCHANGED <<clickState, result, ip, endedAt>>
       ELSE /\ clickState' = "failed"
            /\ result' = Error(ClickError(clickAction, dom))
            /\ ip' = Len(Body) + 1
            /\ endedAt' = Len(traffic)
            /\ UNCHANGED clickCalls
    /\ UNCHANGED <<variant, page, dom, intercepts, clickAction,
                   waitForResponses, waits, clicks, invoked, clickAt,
                   armCalls, traffic, clock>>
    /\ UNCHANGED otherVars

\* a coordinator that swallows the rejection of the click and goes on
ClickFailSwallowed ==
    /\ Stmt = "click"
    /\ clickState = "pending"
    /\ \/ clickAction.kind # "string"
       \/ ~Resolves(clickAction, dom) /\ TimeoutElapsed
    /\ clickState' = "failed"
    /\ ip' = ip + 1
    /\ UNCHANGED <<variant, page, dom, intercepts, clickAction,
                   waitForResponses, waits, clickCalls, clicks, invoked,
                   clickAt, armCalls, endedAt, traffic, clock, result>>
    /\ UNCHANGED otherVars

\* the click rejects: the await throws out of interceptions
ClickFail ==
    /\ Stmt = "click"
    /\ clickState = "pending"
    /\ \/ clickAction.kind # "string"
       \/ ~Resolves(clickAction, dom) /\ TimeoutElapsed
    /\ clickState' = "failed"
    /\ result' = Error(ClickError(clickAction, dom))
    /\ ip' = Len(Body) + 1
    /\ endedAt' = Len(traffic)
    /\ UNCHANGED <<variant, page, dom, intercepts, clickAction,
                   waitForResponses, waits, clickCalls, clicks, invoked,
                   clickAt, armCalls, traffic, clock>>
    /\ UNCHANGED otherVars

\* a page that hands each response to one listener only, the first that
\* takes it
DeliverOne(w, specs, r, k) ==
    [i \in 1..Len(w) |->
        IF /\ w[i].state = "pending"
           /\ Matches(r, specs[i])
           /\ \A j \in 1..(i - 1) :
                ~(w[j].state = "pending" /\ Matches(r, specs[j]))
        THEN [w[i] EXCEPT !.state = "resolved", !.resp = r, !.at = k]
        ELSE w[i]]

RespondOne ==
    /\ ~InSyncSection
    /\ Ended => Listening
    /\ Len(traffic) < MaxResponses
    /\ \E r \in Responses :
        /\ traffic' = Append(traffic, r)
        /\ waits' = DeliverOne(waits, intercepts, r, Len(traffic) + 1)
    /\ UNCHANGED <<variant, page, dom, intercepts, clickAction,
                   waitForResponses, ip, clickState, clickCalls, clicks,
                   invoked, clickAt, armCalls, endedAt, clock, result>>
    /\ UNCHANGED otherVars

\* the browser observes a response
Respond ==
    /\ ~InSyncSection
    /\ Ended => Listening
    /\ Len(traffic) < MaxResponses
    /\ \E r \in Responses :
        /\ traffic' = Append(traffic, r)
        /\ waits' = Deliver(waits, intercepts, r, Len(traffic) + 1)
    /\ UNCHANGED <<variant, page, dom, intercepts, clickAction,
                   waitForResponses, ip, clickState, clickCalls, clicks,
                   invoked, clickAt, armCalls, endedAt, clock, result>>
    /\ UNCHANGED otherVars

\* time passes while the call is suspended
Tick ==
    /\ ip \in 1..Len(Body)
    /\ ~InSyncSection
    /\ clock < TimeoutTicks
    /\ clock' = clock + 1
    /\ UNCHANGED <<variant, page, dom, intercepts, clickAction,
                   waitForResponses, ip, waits, clickState, clickCalls,
                   clicks, invoked, clickAt, armCalls, endedAt, traffic,
                   result>>
    /\ UNCHANGED otherVars

\* the timeout elapsed: every wait still pending rejects
Timeout ==
    /\ TimeoutElapsed
    /\ Listening
    /\ waits' = [i \in 1..Len(waits) |->
                    IF waits[i].state = "pending"
                    THEN [waits[i] EXCEPT !.state = "rejected",
                                          !.at = Len(traffic)]
                    ELSE waits[i]]
    /\ UNCHANGED <<variant, page, dom, intercepts, clickAction,
                   waitForResponses, ip, clickState, clickCalls, clicks,
                   invoked, clickAt, armCalls, endedAt, traffic, clock,
                   result>>
    /\ UNCHANGED otherVars

\* await Promise.all(responsePromises) fulfils: return the responses or this
Return ==
    /\ Stmt = "await"
    /\ AllResolved(waits)
    /\ result' = IF ReturnResponses(variant, waitForResponses)
                 THEN ResponseList(Gather(waits))
                 ELSE This
    /\ ip' = ip + 1
    /\ endedAt' = Len(traffic)
    /\ UNCHANGED <<variant, page, dom, intercepts, clickAction,
                   waitForResponses, waits, clickState, clickCalls, clicks,
                   invoked, clickAt, armCalls, traffic, clock>>
    /\ UNCHANGED otherVars

\* await Promise.all(responsePromises) rejects
Reject ==
    /\ Stmt = "await"
    /\ AnyRejected(waits)
    /\ result' = Error("InterceptionTimeout")
    /\ ip' = ip + 1
    /\ endedAt' = Len(traffic)
    /\ UNCHANGED <<variant, page, dom, intercepts, clickAction,
                   waitForResponses, waits, clickState, clickCalls, clicks,
                   invoked, clickAt, armCalls, traffic, clock>>
    /\ UNCHANGED otherVars

Next ==
    \/ Call
    \/ Arm
    \/ IssueClick
    \/ SkipClick
    \/ ClickDone
    \/ ClickFail
    \/ Respond
    \/ Tick
    \/ Timeout
    \/ Return
    \/ Reject

Spec == Init /\ [][Next]_vars

\* the event loop runs every continuation that is ready and the timers fire;
\* nothing obliges the caller to call or the backend to respond
FairSpec ==
    /\ Spec
    /\ WF_vars(Arm)
    /\ WF_vars(IssueClick)
    /\ WF_vars(SkipClick)
    /\ WF_vars(ClickDone)
    /\ WF_vars(ClickFail)
    /\ WF_vars(Tick)
    /\ WF_vars(Timeout)
    /\ WF_vars(Return)
    /\ WF_vars(Reject)

----------------------------------------------------------------------------
(* The response predicate on its own: every spec against every response *)

MatcherInit ==
    /\ InitCall
    /\ InitCaller
    /\ mSpec \in MatcherSpecs
    /\ mResp \in MatcherResponses
    /\ mResult = "unset"

\* the predicate passed to waitForResponse is evaluated on a response
ApplyMatcher ==
    /\ mResult = "unset"
    /\ mResult' = IF Matches(mResp, mSpec) THEN "true" ELSE "false"
    /\ UNCHANGED <<mSpec, mResp>>
    /\ UNCHANGED callVars
    /\ UNCHANGED callerVars

MatcherNext == ApplyMatcher

MatcherSpec == MatcherInit /\ [][MatcherNext]_vars

----------------------------------------------------------------------------
(* Properties of the Interception Coordinator *)

Returned == result.kind \in {"this", "responses"}

Failed == result.kind = "error"

PostSpec == [url |-> LeaveUrl, method |-> "POST", statusCode |-> 201]
GetSpec == [url |-> LeaveUrl, method |-> "GET", statusCode |-> 200]

ClickRequested == clickAction \in {Selector("#btn"), Callable}

\* response k of the traffic reached the wait of spec i: the wait settled
\* with it or with an earlier response, or had timed out before it arrived
NotMissed(k, i) ==
    /\ i \in 1..Len(waits)
    /\ \/ waits[i].state = "resolved" /\ waits[i].at <= k
       \/ waits[i].state = "rejected" /\ waits[i].at < k

\* C1: once the click has been issued, a wait is registered for every spec of
\* the call, and every response observed after the click was issued that
\* matches a spec has been seen by that spec's wait (none is missed), also
\* while the click call has not returned yet.
C1_ArmedBeforeClick ==
    clickCalls > 0 =>
        /\ Len(waits) = Len(intercepts)
        /\ \A i \in 1..Len(intercepts) : waits[i].armed <= clickAt
        /\ \A k \in (clickAt + 1)..Len(traffic) :
             \A i \in 1..Len(intercepts) :
                Matches(traffic[k], intercepts[i]) => NotMissed(k, i)

\* a matching response arrived while the click call was still pending and
\* resolved its wait
C1_Witness ==
    /\ clickState = "pending"
    /\ \E i \in 1..Len(waits) :
         waits[i].state = "resolved" /\ waits[i].at > clickAt

\* C2: a normal return happens only when every spec has a wait that was
\* resolved by a matching response observed after the wait was armed, and,
\* when a click was requested, after the click was performed; a failed click
\* or a rejected wait never leads to a normal return.
C2_NoPartialSuccess ==
    Returned =>
        /\ Len(waits) = Len(intercepts)
        /\ \A i \in 1..Len(intercepts) :
             /\ waits[i].state = "resolved"
             /\ waits[i].at > waits[i].armed
             /\ waits[i].at <= Len(traffic)
             /\ traffic[waits[i].at] = waits[i].resp
             /\ Matches(waits[i].resp, intercepts[i])
        /\ ClickRequested => clickState = "done" /\ clicks = 1
        /\ clickState # "failed"

\* a call with two specs and a click returned normally
C2_Witness ==
    /\ Returned
    /\ Len(intercepts) = 2
    /\ clickState = "done"
    /\ waits[1].at # waits[2].at

\* C3: a call with waitForResponses = true that does not fail returns a list
\* with one response per spec, the i-th matching the i-th spec and being the
\* response that resolved the i-th wait, whatever the order of arrival.
C3_ResponsesInSpecOrder ==
    (variant = "current" /\ waitForResponses = "true" /\ Ended /\ ~Failed) =>
        /\ result.kind = "responses"
        /\ Len(result.list) = Len(intercepts)
        /\ \A i \in 1..Len(intercepts) :
             /\ Matches(result.list[i], intercepts[i])
             /\ result.list[i] = waits[i].resp

\* chooseTypeOfRequest's call returned although the GET 200 response arrived
\* before the POST 201 response
C3_Witness ==
    /\ result.kind = "responses"
    /\ intercepts = <<PostSpec, GetSpec>>
    /\ waits[2].at < waits[1].at
    /\ result.list[1].method = "POST"

\* sub occurs in s: s is sub with something before and something after it
IsSubstring(sub, s) ==
    \E pre \in UrlStrings(MaxUrlLen), suf \in UrlStrings(MaxUrlLen) :
        s = pre \o sub \o suf

\* C4: the predicate accepts a response for a spec exactly when the response
\* URL contains the spec URL, the methods are equal and the status codes are
\* equal; a response that differs in one of the three is rejected.
C4_MatcherIff ==
    mResult # "unset" =>
        (mResult = "true" <=>
            /\ IsSubstring(mSpec.url, mResp.url)
            /\ mResp.method = mSpec.method
            /\ mResp.status = mSpec.statusCode)

\* accepted with the spec URL strictly inside the response URL, not at its start
C4_Witness ==
    /\ mResult = "true"
    /\ Len(mSpec.url) > 0
    /\ Len(mSpec.url) < Len(mResp.url)
    /\ SubSeq(mResp.url, 1, Len(mSpec.url)) # mSpec.url

ClickStatementPassed == Stmt = "await" \/ Ended

C6_ExactlyOneClickNoRetry ==
    /\ clickCalls <= 1
    /\ clicks <= clickCalls
    /\ armCalls <= Len(intercepts)
    /\ (ClickRequested /\ ClickStatementPassed) =>
            clickCalls = 1 /\ armCalls = Len(intercepts)
    /\ clickState = "pending" =>
            Len(waits) = Len(intercepts) /\ armCalls = Len(intercepts)

\* a wait timed out after the click had been performed: the call failed
\* with one click and one wait per spec
C6_Witness ==
    /\ result = Error("InterceptionTimeout")
    /\ clickCalls = 1
    /\ clicks = 1
    /\ armCalls = 2

\* C7: every call ends, and a call that ends with a wait that timed out
\* ends in a timeout error, never in a normal return.
C7_Terminates ==
    /\ (ip >= 1) ~> Ended
    /\ [](AnyRejected(waits) => ~Returned)
    /\ []((Ended /\ AnyRejected(waits) /\ clickState # "failed") =>
            result = Error("InterceptionTimeout"))

\* one wait was matched, the other never was: the call failed at the timeout
C7_Witness ==
    /\ result = Error("InterceptionTimeout")
    /\ clock = TimeoutTicks
    /\ Len(waits) = 2
    /\ waits[1].state = "resolved"
    /\ waits[2].state = "rejected"

\* C8: when the click fails the call ends with the error of the click and
\* returns neither responses nor the coordinator, whatever the state of the
\* waits, which the coordinator has not awaited.
C8_ClickFailurePropagates ==
    clickState = "failed" =>
        /\ Ended
        /\ result.kind = "error"
        /\ result.list = <<>>
        /\ result.err \in {"ElementNotFound", "ElementNotActionable",
                           "InvalidSelector"}
        /\ (clickAction = Selector("#btn") /\ dom = "missing") =>
                result.err = "ElementNotFound"
        /\ (clickAction = Selector("#btn") /\ dom = "hidden") =>
                result.err = "ElementNotActionable"

\* the click failed; one expected response had arrived before the failure
\* and the other arrived after it
C8_Witness ==
    /\ clickState = "failed"
    /\ result.err = "ElementNotFound"
    /\ Len(waits) = 2
    /\ AllResolved(waits)
    /\ \E i, j \in 1..2 : waits[i].at <= endedAt /\ waits[j].at > endedAt

\* C9: a call of the current coordinator without a click target never
\* touches the page, still registers a wait for every spec, and returns only
\* when every wait has been resolved by a response.
C9_NoActionNoInteraction ==
    (variant = "current" /\ ip >= 1 /\ clickAction = Undefined) =>
        /\ clickCalls = 0
        /\ clicks = 0
        /\ clickState = "none"
        /\ ip >= 2 => Len(waits) = Len(intercepts) /\ armCalls = Len(intercepts)
        /\ Ended => (Returned <=> AllResolved(waits))
        /\ Returned => \A i \in 1..Len(waits) : waits[i].at > waits[i].armed

\* a call without a click target returned after two responses
C9_Witness ==
    /\ variant = "current"
    /\ clickAction = Undefined
    /\ Returned
    /\ Len(intercepts) = 2
    /\ clicks = 0

\* C10: with a callable as trigger target, once the click statement is
\* passed the callable has been invoked exactly once, with every wait armed,
\* and the call goes on to await the responses.
C10_CallableInvokedOnce ==
    (clickAction = Callable /\ ClickStatementPassed) =>
        /\ invoked = 1
        /\ Len(waits) = Len(intercepts)
        /\ clickState # "failed"

----------------------------------------------------------------------------
(* A test that awaits one interceptions call after the other on the same    *)
(* coordinator: the second call starts when the first has returned; a call  *)
(* that throws ends the test.                                               *)

\* what is left of a call when the next one starts
Snapshot ==
    [intercepts |-> intercepts, clickAction |-> clickAction, waits |-> waits,
     clickState |-> clickState, clickCalls |-> clickCalls,
     clickAt |-> clickAt, endedAt |-> endedAt, page |-> page,
     result |-> result]

SeqInit ==
    /\ InitCall
    /\ variant = "current"
    /\ InitCaller
    /\ mSpec = [url |-> <<>>, method |-> "GET", statusCode |-> 200]
    /\ mResp = NoResponse
    /\ mResult = "unset"

\* the targets the tests pass: none, or the selector of a control
TestTargets == {Undefined, Selector("#btn")}

\* await interception.interceptions(specs, target), the first call of the test
FirstCall ==
    /\ ip = 0
    /\ \E specs \in InterceptLists, ca \in TestTargets :
        /\ intercepts' = specs
        /\ clickAction' = ca
    /\ waitForResponses' = "omitted"
    /\ ip' = 1
    /\ UNCHANGED <<variant, page, dom, waits, clickState, clickCalls, clicks,
                   invoked, clickAt, armCalls, endedAt, traffic, clock,
                   result>>
    /\ UNCHANGED otherVars

\* await interception.interceptions(...) again, after the previous call
\* returned: fresh locals, same page, same test clock
CallAgain ==
    /\ Ended
    /\ result.kind \in {"this", "responses"}
    /\ Len(prev) < MaxCalls - 1
    /\ prev' = Append(prev, Snapshot)
    /\ \E specs \in InterceptLists, ca \in TestTargets :
        /\ intercepts' = specs
        /\ clickAction' = ca
    /\ ip' = 1
    /\ waits' = <<>>
    /\ clickState' = "none"
    /\ clickCalls' = 0
    /\ clicks' = 0
    /\ clickAt' = 0
    /\ armCalls' = 0
    /\ endedAt' = 0
    /\ dom' = Unqueried
    /\ result' = NoResult
    /\ UNCHANGED <<variant, page, waitForResponses, invoked, traffic, clock>>
    /\ UNCHANGED <<cpc, cargs, events, app, cres, createdId>>
    /\ UNCHANGED matcherVars

SeqNext ==
    \/ FirstCall
    \/ CallAgain
    \/ Arm
    \/ IssueClick
    \/ SkipClick
    \/ ClickDone
    \/ ClickFail
    \/ Respond
    \/ Tick
    \/ Timeout
    \/ Return
    \/ Reject

SeqSpec == SeqInit /\ [][SeqNext]_vars

\* C11: the coordinator keeps no match from one call to the next: the page
\* field never changes, the waits of a later call are registered after the
\* earlier call ended, and a wait of the later call is resolved only by a
\* response observed after that wait was armed, hence by a later response
\* than any that resolved a wait of the earlier call.
C11_NoCachedMatch ==
    /\ page = "page"
    /\ \A c \in 1..Len(prev) : prev[c].page = page
    /\ Len(prev) >= 1 =>
        \A i \in 1..Len(waits) :
            /\ waits[i].armed >= prev[Len(prev)].endedAt
            /\ waits[i].state = "resolved" =>
                /\ waits[i].at > waits[i].armed
                /\ traffic[waits[i].at] = waits[i].resp
                /\ \A j \in 1..Len(prev[Len(prev)].waits) :
                        waits[i].at > prev[Len(prev)].waits[j].at

\* two calls with the same specs both returned, the second on a response of
\* its own
C11_Witness ==
    /\ Len(prev) = 1
    /\ result.kind \in {"this", "responses"}
    /\ Len(intercepts) >= 1
    /\ intercepts = prev[1].intercepts
    /\ waits[1].resp = prev[1].waits[1].resp
    /\ waits[1].at > prev[1].waits[1].at

----------------------------------------------------------------------------
\* C12: a resolved wait holds the first response matching its spec that the
\* page observed after the wait was armed; a matching response observed
\* later changes neither the wait nor the outcome of the call.
C12_FirstMatchWins ==
    /\ [](\A i \in 1..Len(waits) :
            waits[i].state = "resolved" =>
                /\ Matches(traffic[waits[i].at], intercepts[i])
                /\ \A k \in (waits[i].armed + 1)..(waits[i].at - 1) :
                        ~Matches(traffic[k], intercepts[i]))
    /\ [][\A i \in 1..Len(waits) :
            waits[i].state = "resolved" => waits'[i] = waits[i]]_vars
    /\ [][result.kind # "none" => result' = result]_vars

\* the call returned although a second response matching the same spec was
\* observed after the wait had resolved and before the return
C12_Witness ==
    /\ result.kind \in {"this", "responses"}
    /\ \E i \in 1..Len(waits) :
         \E k \in (waits[i].at + 1)..endedAt :
            Matches(traffic[k], intercepts[i])

----------------------------------------------------------------------------
\* C13: when a call follows an awaited call that was given a click target,
\* the click of the earlier call had been issued (once, and performed)
\* before the later call started, so every wait of the later call was armed
\* after that click.
C13_BatchesOrdered ==
    \A c \in 1..Len(prev) :
        prev[c].clickAction = Selector("#btn") =>
            /\ prev[c].clickCalls = 1
            /\ prev[c].clickState = "done"
            /\ prev[c].clickAt <= prev[c].endedAt
            /\ \A i \in 1..Len(waits) :
                 /\ waits[i].armed >= prev[c].endedAt
                 /\ waits[i].armed >= prev[c].clickAt

\* the second call has armed its waits after a first call that clicked and
\* saw a response after its click
C13_Witness ==
    /\ Len(prev) = 1
    /\ prev[1].clickAction = Selector("#btn")
    /\ Len(prev[1].waits) >= 1
    /\ Len(waits) >= 1
    /\ waits[1].armed > prev[1].clickAt

----------------------------------------------------------------------------
(* Login.signIn: fill the two fields, then Promise.all of a wait for the    *)
(* POST /api/login response and the click on the LOGIN button.  "s" stands  *)
(* for /api/login in the URLs.                                              *)

LoginUrl == <<"s">>

LoginStatusCodes == {200, 401}

LoginResponses ==
    { [url |-> <<"h", "s">>, method |-> "POST", status |-> 200],
      [url |-> <<"h", "s">>, method |-> "POST", status |-> 401],
      [url |-> <<"h", "l">>, method |-> "GET", status |-> 200] }

\* the single response signIn waits for
LoginIntercepts(code) ==
    <<[url |-> LoginUrl, method |-> "POST", statusCode |-> code]>>

LoginBodyClickFirst == <<"fillUser", "fillPass", "click", "arm", "await">>

\* the body of signIn in evaluation order: the elements of the array given
\* to Promise.all are evaluated left to right, the wait before the click
LoginBody == <<"fillUser", "fillPass", "arm", "click", "await">>

LoginStmt == IF cpc \in 1..Len(LoginBody) THEN LoginBody[cpc] ELSE "none"

LoginEnded == cpc = Len(LoginBody) + 1

LoginThis == [kind |-> "this", list |-> <<>>, err |-> "Login"]

LoginField(stmt) == IF stmt = "fillUser" THEN "username" ELSE "password"

\* the array literal is evaluated without suspension
LoginInSync == LoginStmt \in {"arm", "click"}

LoginInit ==
    /\ InitCall
    /\ variant = "current"
    /\ prev = <<>>
    /\ cpc = 0
    /\ cargs = NoArgs
    /\ events = <<>>
    /\ app = [kind |-> "login", filled |-> {}]
    /\ cres = NoResult
    /\ createdId = Unset
    /\ mSpec = [url |-> <<>>, method |-> "GET", statusCode |-> 200]
    /\ mResp = NoResponse
    /\ mResult = "unset"

\* what the steps of signIn never touch
loginFrame ==
    <<variant, page, intercepts, clickAction, waitForResponses, ip, invoked,
      armCalls, endedAt, result, prev, events, createdId>>

\* login.signIn(username, password, statusCode) is called
SignIn ==
    /\ cpc = 0
    /\ \E code \in LoginStatusCodes :
        cargs' = [kind |-> "signIn", statusCode |-> code]
    /\ cpc' = 1
    /\ UNCHANGED <<app, cres, dom, waits, clickState, clickCalls, clicks,
                   clickAt, traffic, clock>>
    /\ UNCHANGED loginFrame
    /\ UNCHANGED matcherVars

\* await this.page.locator(field).fill(value): the field is there
LoginFill ==
    /\ LoginStmt \in {"fillUser", "fillPass"}
    /\ app' = [app EXCEPT !.filled = @ \cup {LoginField(LoginStmt)}]
    /\ cpc' = cpc + 1
    /\ UNCHANGED <<cargs, cres, dom, waits, clickState, clickCalls, clicks,
                   clickAt, traffic, clock>>
    /\ UNCHANGED loginFrame
    /\ UNCHANGED matcherVars

\* the field never shows up: fill rejects at the timeout and signIn throws
LoginFillFail ==
    /\ LoginStmt \in {"fillUser", "fillPass"}
    /\ TimeoutElapsed
    /\ cres' = Error("ElementNotFound")
    /\ cpc' = Len(LoginBody) + 1
    /\ UNCHANGED <<cargs, app, dom, waits, clickState, clickCalls, clicks,
                   clickAt, traffic, clock>>
    /\ UNCHANGED loginFrame
    /\ UNCHANGED matcherVars

\* this.page.waitForResponse(resp => ...), first element of the array
LoginArm ==
    /\ LoginStmt = "arm"
    /\ waits' = RegisterWaits(LoginIntercepts(cargs.statusCode), Len(traffic))
    /\ cpc' = cpc + 1
    /\ UNCHANGED <<cargs, app, cres, dom, clickState, clickCalls, clicks,
                   clickAt, traffic, clock>>
    /\ UNCHANGED loginFrame
    /\ UNCHANGED matcherVars

\* this.page.locator('button:text("LOGIN")').click(), second element
LoginIssueClick ==
    /\ LoginStmt = "click"
    /\ clickState' = "pending"
    /\ clickCalls' = clickCalls + 1
    /\ clickAt' = Len(traffic)
    /\ dom' \in DomStates
    /\ cpc' = cpc + 1
    /\ UNCHANGED <<cargs, app, cres, waits, clicks, traffic, clock>>
    /\ UNCHANGED loginFrame
    /\ UNCHANGED matcherVars

\* the LOGIN button is clicked
LoginClickDone ==
    /\ ~LoginInSync
    /\ clickState = "pending"
    /\ dom = "actionable"
    /\ clickState' = "done"
    /\ clicks' = clicks + 1
    /\ UNCHANGED <<cpc, cargs, app, cres, dom, waits, clickCalls, clickAt,
                   traffic, clock>>
    /\ UNCHANGED loginFrame
    /\ UNCHANGED matcherVars

\* the LOGIN button cannot be clicked: the click rejects at the timeout
LoginClickFail ==
    /\ ~LoginInSync
    /\ clickState = "pending"
    /\ dom # "actionable"
    /\ TimeoutElapsed
    /\ clickState' = "failed"
    /\ UNCHANGED <<cpc, cargs, app, cres, dom, waits, clickCalls, clicks,
                   clickAt, traffic, clock>>
    /\ UNCHANGED loginFrame
    /\ UNCHANGED matcherVars

\* the browser observes a response
LoginRespond ==
    /\ ~LoginInSync
    /\ cpc >= 1
    /\ LoginEnded => Listening
    /\ Len(traffic) < MaxResponses
    /\ \E r \in LoginResponses :
        /\ traffic' = Append(traffic, r)
        /\ waits' = Deliver(waits, LoginIntercepts(cargs.statusCode), r,
                            Len(traffic) + 1)
    /\ UNCHANGED <<cpc, cargs, app, cres, dom, clickState, clickCalls,
                   clicks, clickAt, clock>>
    /\ UNCHANGED loginFrame
    /\ UNCHANGED matcherVars

LoginTick ==
    /\ cpc \in 1..Len(LoginBody)
    /\ ~LoginInSync
    /\ clock < TimeoutTicks
    /\ clock' = clock + 1
    /\ UNCHANGED <<cpc, cargs, app, cres, dom, waits, clickState,
                   clickCalls, clicks, clickAt, traffic>>
    /\ UNCHANGED loginFrame
    /\ UNCHANGED matcherVars

\* the timeout elapsed: the pending wait rejects
LoginTimeout ==
    /\ ~LoginInSync
    /\ TimeoutElapsed
    /\ Listening
    /\ waits' = [i \in 1..Len(waits) |->
                    IF waits[i].state = "pending"
                    THEN [waits[i] EXCEPT !.state = "rejected",
                                          !.at = Len(traffic)]
                    ELSE waits[i]]
    /\ UNCHANGED <<cpc, cargs, app, cres, dom, clickState, clickCalls,
                   clicks, clickAt, traffic, clock>>
    /\ UNCHANGED loginFrame
    /\ UNCHANGED matcherVars

\* Promise.all fulfils: the response arrived and the click is done
LoginReturn ==
    /\ LoginStmt = "await"
    /\ AllResolved(waits)
    /\ clickState = "done"
    /\ cres' = LoginThis
    /\ cpc' = cpc + 1
    /\ UNCHANGED <<cargs, app, dom, waits, clickState, clickCalls, clicks,
                   clickAt, traffic, clock>>
    /\ UNCHANGED loginFrame
    /\ UNCHANGED matcherVars

\* Promise.all rejects with the rejection of the wait or of the click
LoginReject ==
    /\ LoginStmt = "await"
    /\ \/ AnyRejected(waits) /\ cres' = Error("InterceptionTimeout")
       \/ clickState = "failed" /\ cres' = Error(ClickError(Selector("#btn"), dom))
    /\ cpc' = cpc + 1
    /\ UNCHANGED <<cargs, app, dom, waits, clickState, clickCalls, clicks,
                   clickAt, traffic, clock>>
    /\ UNCHANGED loginFrame
    /\ UNCHANGED matcherVars

LoginNext ==
    \/ SignIn
    \/ LoginFill
    \/ LoginFillFail
    \/ LoginArm
    \/ LoginIssueClick
    \/ LoginClickDone
    \/ LoginClickFail
    \/ LoginRespond
    \/ LoginTick
    \/ LoginTimeout
    \/ LoginReturn
    \/ LoginReject

LoginSpec == LoginInit /\ [][LoginNext]_vars

\* C14: signIn behaves as the two fills followed by one coordinator call
\* with the single spec {/api/login, POST, statusCode} and the LOGIN button:
\* the one wait is armed after both fields are filled and before the one
\* click, signIn returns the Login instance only after a matching response
\* was observed and the click was performed, and it fails whenever the
\* click fails or the wait times out.
C14_SignInAsCoordinatorCall ==
    /\ Len(waits) <= 1
    /\ clickCalls <= 1
    /\ Len(waits) = 1 => app.filled = {"username", "password"}
    /\ clickCalls = 1 =>
            /\ Len(waits) = 1
            /\ waits[1].armed <= clickAt
    /\ cres.kind = "this" =>
            /\ cres = LoginThis
            /\ clickState = "done"
            /\ waits[1].state = "resolved"
            /\ waits[1].at > waits[1].armed
            /\ traffic[waits[1].at] = waits[1].resp
            /\ Includes(waits[1].resp.url, LoginUrl)
            /\ waits[1].resp.method = "POST"
            /\ waits[1].resp.status = cargs.statusCode
    /\ (LoginEnded /\ (clickState = "failed" \/ AnyRejected(waits))) =>
            cres.kind = "error"
    /\ LoginEnded => cres.kind \in {"this", "error"}

\* signIn with statusCode 401 returned after a 200 login response that did not count
C14_Witness ==
    /\ cres = LoginThis
    /\ cargs.statusCode = 401
    /\ waits[1].at = 2
    /\ traffic[1].status = 200
    /\ traffic[1].method = "POST"

----------------------------------------------------------------------------
(* Navigation.gotoTabRequests: one awaited interceptions call               *)

TasksUrl == <<"t">>

NavUrls == {LeaveUrl, TasksUrl}

NavStatusCodes == {200, 201}

\* [{url: url, method: 'GET', statusCode: statusCode}]
NavIntercepts(url, code) ==
    <<[url |-> url, method |-> "GET", statusCode |-> code]>>

NavThis == [kind |-> "this", list |-> <<>>, err |-> "Navigation"]

\* a gotoTabRequests that returns what interceptions returned
NavResultForwarded(r) == r

\* return this, after the awaited call
NavResult(r) == NavThis

NavInit ==
    /\ InitCall
    /\ variant = "current"
    /\ InitCaller
    /\ mSpec = [url |-> <<>>, method |-> "GET", statusCode |-> 200]
    /\ mResp = NoResponse
    /\ mResult = "unset"

\* navigation.gotoTabRequests(url, statusCode, selector) is called and calls
\* this.interception.interceptions([...], selector)
GotoTabRequests ==
    /\ cpc = 0
    /\ ip = 0
    /\ \E url \in NavUrls, code \in NavStatusCodes :
        /\ cargs' = [kind |-> "gotoTabRequests", url |-> url,
                     statusCode |-> code, selector |-> "#btn"]
        /\ intercepts' = NavIntercepts(url, code)
    /\ clickAction' = Selector("#btn")
    /\ waitForResponses' = "omitted"
    /\ ip' = 1
    /\ cpc' = 1
    /\ events' = Append(events, "interceptions")
    /\ UNCHANGED <<variant, page, dom, waits, clickState, clickCalls, clicks,
                   invoked, clickAt, armCalls, endedAt, traffic, clock,
                   result>>
    /\ UNCHANGED <<prev, app, cres, createdId>>
    /\ UNCHANGED matcherVars

\* the awaited call returned: return this
NavReturn ==
    /\ cpc = 1
    /\ Ended
    /\ result.kind \in {"this", "responses"}
    /\ cres' = NavResult(result)
    /\ cpc' = 2
    /\ UNCHANGED callVars
    /\ UNCHANGED <<prev, cargs, events, app, createdId>>
    /\ UNCHANGED matcherVars

\* the awaited call threw: gotoTabRequests throws the same error
NavThrow ==
    /\ cpc = 1
    /\ Ended
    /\ result.kind = "error"
    /\ cres' = result
    /\ cpc' = 2
    /\ UNCHANGED callVars
    /\ UNCHANGED <<prev, cargs, events, app, createdId>>
    /\ UNCHANGED matcherVars

NavNext ==
    \/ GotoTabRequests
    \/ Arm
    \/ IssueClick
    \/ ClickDone
    \/ ClickFail
    \/ Respond
    \/ Tick
    \/ Timeout
    \/ Return
    \/ Reject
    \/ NavReturn
    \/ NavThrow

NavSpec == NavInit /\ [][NavNext]_vars

----------------------------------------------------------------------------
(* The test functions: each awaits interceptions calls on the one page of   *)
(* the test and checks what the page shows in between.                      *)

\* what a test has done so far: the steps with the number of responses the
\* page had observed when the step ran and the createdId the step found
Logged(op) ==
    Append(events, [op |-> op, at |-> Len(traffic), id |-> createdId])

Did(op) == \E i \in 1..Len(events) : events[i].op = op

\* the module-level createdId keeps the value it had
KeptId(old, id) == old

\* createdId = data.id: the module-level createdId after a creation step
\* has read the id in the body of the POST response
StoredId(old, id) == id

\* await interception.interceptions(specs, ca, wfr): the call starts with
\* fresh locals on the same page; the call before it is kept in prev
StartCall(specs, ca, wfr) ==
    /\ ip \in {0, Len(Body) + 1}
    /\ intercepts' = specs
    /\ clickAction' = ca
    /\ waitForResponses' = wfr
    /\ prev' = IF ip = 0 THEN prev ELSE Append(prev, Snapshot)
    /\ ip' = 1
    /\ waits' = <<>>
    /\ clickState' = "none"
    /\ clickCalls' = 0
    /\ clicks' = 0
    /\ clickAt' = 0
    /\ armCalls' = 0
    /\ endedAt' = 0
    /\ dom' = Unqueried
    /\ result' = NoResult
    /\ UNCHANGED <<variant, page, invoked, traffic, clock>>
    /\ UNCHANGED matcherVars

\* a step of a test that makes no interceptions call
NoCall ==
    /\ ip \in {0, Len(Body) + 1}
    /\ UNCHANGED callVars
    /\ UNCHANGED prev
    /\ UNCHANGED matcherVars

Passed == [kind |-> "passed", list |-> <<>>, err |-> ""]

\* the ids the server gives to what the tests create
Ids == {1, 2}

----------------------------------------------------------------------------
(* Leave requests: test `${leaveType} request - ${action}`                  *)

PutSpec == [url |-> LeaveUrl, method |-> "PUT", statusCode |-> 200]

LeaveResponses ==
    { [url |-> <<"h", "l">>, method |-> "POST", status |-> 201],
      [url |-> <<"h", "l">>, method |-> "GET", status |-> 200],
      [url |-> <<"h", "l">>, method |-> "PUT", status |-> 200] }

\* the scenarios table: the button clicked and the status expected after it
LeaveScenarios ==
    { [kind |-> "leave", action |-> "approve-button", expectedStatus |-> "approved"],
      [kind |-> "leave", action |-> "reject-button", expectedStatus |-> "rejected"] }

\* what the status chip of the card can show
CardTexts == {"Pending", "approved", "rejected"}

\* String.prototype.toLowerCase on the card texts
ToLowerCase(t) == IF t = "Pending" THEN "pending" ELSE t

NoCard == [status |-> "", dates |-> ""]

\* the test with the button clicked before the card is checked
LeaveBodyActionFirst ==
    <<"fillForm", "submit", "storeId", "action", "expectStatus", "readFirst",
      "checkPending", "checkDates", "readLast", "checkFinal">>

\* the statements of the test, chooseTypeOfRequest and clickButtonStatus
\* inlined, in program order
LeaveBody ==
    <<"fillForm", "submit", "storeId", "readFirst", "checkPending",
      "checkDates", "action", "expectStatus", "readLast", "checkFinal">>

LeaveStmt == IF cpc \in 1..Len(LeaveBody) THEN LeaveBody[cpc] ELSE "none"

LeaveInit ==
    /\ InitCall
    /\ variant = "current"
    /\ prev = <<>>
    /\ cpc = 1
    /\ cargs \in LeaveScenarios
    /\ events = <<>>
    /\ app = [kind |-> "leave", first |-> NoCard, last |-> NoCard]
    /\ cres = NoResult
    /\ createdId = Unset
    /\ mSpec = [url |-> <<>>, method |-> "GET", statusCode |-> 200]
    /\ mResp = NoResponse
    /\ mResult = "unset"

\* chooseTypeOfRequest: the type is chosen and both dates are filled
FillForm ==
    /\ LeaveStmt = "fillForm"
    /\ NoCall
    /\ events' = Logged("fillForm")
    /\ cpc' = cpc + 1
    /\ UNCHANGED <<cargs, app, cres, createdId>>

\* chooseTypeOfRequest: interceptions([POST 201, GET 200], submitButton, true)
SubmitRequest ==
    /\ LeaveStmt = "submit"
    /\ StartCall(<<PostSpec, GetSpec>>, Selector("#btn"), "true")
    /\ events' = Logged("submit")
    /\ cpc' = cpc + 1
    /\ UNCHANGED <<cargs, app, cres, createdId>>

\* chooseTypeOfRequest: createdId = data.leaveId of responses[0]
StoreLeaveId ==
    /\ LeaveStmt = "storeId"
    /\ Ended
    /\ result.kind = "responses"
    /\ NoCall
    /\ \E id \in Ids :
        /\ createdId' = StoredId(createdId, id)
        /\ events' = Append(events, [op |-> "storeId", at |-> Len(traffic),
                                     id |-> id])
    /\ cpc' = cpc + 1
    /\ UNCHANGED <<cargs, app, cres>>

\* getCardData: the texts of the card of createdId, as the page shows them
ReadCard ==
    /\ LeaveStmt \in {"readFirst", "readLast"}
    /\ NoCall
    /\ \E t \in CardTexts, dt \in {"today", "other"} :
        app' = IF LeaveStmt = "readFirst"
               THEN [app EXCEPT !.first = [status |-> t, dates |-> dt]]
               ELSE [app EXCEPT !.last = [status |-> t, dates |-> dt]]
    /\ events' = Logged(LeaveStmt)
    /\ cpc' = cpc + 1
    /\ UNCHANGED <<cargs, cres, createdId>>

\* reCheckStatus(firstCard..., statusType.pending): pending is the expected status
CheckPending ==
    /\ LeaveStmt = "checkPending"
    /\ NoCall
    /\ events' = Logged("checkPending")
    /\ IF ToLowerCase(app.first.status) = "pending"
       THEN cpc' = cpc + 1 /\ UNCHANGED cres
       ELSE cpc' = Len(LeaveBody) + 1 /\ cres' = Error("AssertionMismatch")
    /\ UNCHANGED <<cargs, app, createdId>>

\* expect(firstCard.dates).toBe(`${formattedDate} - ${formattedDate}`)
CheckDates ==
    /\ LeaveStmt = "checkDates"
    /\ NoCall
    /\ events' = Logged("checkDates")
    /\ IF app.first.dates = "today"
       THEN cpc' = cpc + 1 /\ UNCHANGED cres
       ELSE cpc' = Len(LeaveBody) + 1 /\ cres' = Error("AssertionMismatch")
    /\ UNCHANGED <<cargs, app, createdId>>

\* clickButtonStatus: interceptions([PUT 200], `${action}-${createdId}`)
ClickButtonStatus ==
    /\ LeaveStmt = "action"
    /\ StartCall(<<PutSpec>>, Selector("#btn"), "omitted")
    /\ events' = Logged("action")
    /\ cpc' = cpc + 1
    /\ UNCHANGED <<cargs, app, cres, createdId>>

\* clickButtonStatus: expect(statusLocator).toHaveText(status)
ExpectStatus ==
    /\ LeaveStmt = "expectStatus"
    /\ Ended
    /\ result.kind = "this"
    /\ NoCall
    /\ events' = Logged("expectStatus")
    /\ \E t \in CardTexts :
        IF t = cargs.expectedStatus
        THEN cpc' = cpc + 1 /\ UNCHANGED cres
        ELSE cpc' = Len(LeaveBody) + 1 /\ cres' = Error("AssertionMismatch")
    /\ UNCHANGED <<cargs, app, createdId>>

\* reCheckStatus(lastCard..., statusType[expectedStatus]): the test passes
CheckFinal ==
    /\ LeaveStmt = "checkFinal"
    /\ NoCall
    /\ events' = Logged("checkFinal")
    /\ cpc' = Len(LeaveBody) + 1
    /\ cres' = IF ToLowerCase(app.last.status) = cargs.expectedStatus
               THEN Passed
               ELSE Error("AssertionMismatch")
    /\ UNCHANGED <<cargs, app, createdId>>

\* the awaited interceptions call threw: the test fails with its error
LeaveCallFailed ==
    /\ LeaveStmt \in {"storeId", "expectStatus"}
    /\ Ended
    /\ result.kind = "error"
    /\ NoCall
    /\ cres' = result
    /\ cpc' = Len(LeaveBody) + 1
    /\ UNCHANGED <<cargs, events, app, createdId>>

\* the browser observes a response of /api/leave
LeaveRespond ==
    /\ ~InSyncSection
    /\ cpc <= Len(LeaveBody)
    /\ Len(traffic) < MaxTraffic
    /\ \E r \in LeaveResponses :
        /\ traffic' = Append(traffic, r)
        /\ waits' = Deliver(waits, intercepts, r, Len(traffic) + 1)
    /\ UNCHANGED <<variant, page, dom, intercepts, clickAction,
                   waitForResponses, ip, clickState, clickCalls, clicks,
                   invoked, clickAt, armCalls, endedAt, clock, result>>
    /\ UNCHANGED otherVars

LeaveNext ==
    \/ FillForm
    \/ SubmitRequest
    \/ StoreLeaveId
    \/ ReadCard
    \/ CheckPending
    \/ CheckDates
    \/ ClickButtonStatus
    \/ ExpectStatus
    \/ CheckFinal
    \/ LeaveCallFailed
    \/ LeaveRespond
    \/ Arm
    \/ IssueClick
    \/ ClickDone
    \/ ClickFail
    \/ Tick
    \/ Timeout
    \/ Return
    \/ Reject

LeaveSpec == LeaveInit /\ [][LeaveNext]_vars

\* the page had observed a response matching spec when the step was logged
SeenBy(e, spec) == \E j \in 1..e.at : Matches(traffic[j], spec)

\* C17: in a leave scenario the card is read as pending only after the
\* POST 201 and the GET 200 of /api/leave were observed, the approve or
\* reject button is clicked only after the pending check passed, and the
\* final status is asserted only after a PUT 200 of /api/leave was observed.
C17_LeaveStepsOrdered ==
    /\ \A i \in 1..Len(events) :
        /\ events[i].op \in {"readFirst", "checkPending"} =>
            /\ SeenBy(events[i], PostSpec)
            /\ SeenBy(events[i], GetSpec)
        /\ events[i].op \in {"expectStatus", "checkFinal"} =>
            /\ SeenBy(events[i], PutSpec)
            /\ \E k \in 1..(i - 1) : events[k].op = "action"
    /\ (intercepts = <<PutSpec>> /\ clickCalls >= 1) =>
        /\ Did("checkPending")
        /\ ToLowerCase(app.first.status) = "pending"
    /\ cres = Passed =>
        /\ Did("checkPending")
        /\ Did("expectStatus")
        /\ Did("checkFinal")

\* an approve scenario passed although the PUT response had also been
\* observed before the request was created
C17_Witness ==
    /\ cres = Passed
    /\ cargs.expectedStatus = "approved"
    /\ Len(traffic) = 4
    /\ Matches(traffic[1], PutSpec)

----------------------------------------------------------------------------
(* globalTeardown: sign in, open the checklist of the next month and delete *)
(* the tasks it shows, all inside one try block.  The position cpc is the   *)
(* label of the next statement.  Every Playwright call of the teardown has  *)
(* a timeout of its own; the model lets any of them elapse once the clock   *)
(* has reached TimeoutTicks.                                                *)

DeleteSpec == [url |-> TasksUrl, method |-> "DELETE", statusCode |-> 204]

TeardownResponses ==
    { [url |-> <<"h", "s">>, method |-> "POST", status |-> 200],
      [url |-> <<"h", "t">>, method |-> "GET", status |-> 200],
      [url |-> <<"h", "t">>, method |-> "DELETE", status |-> 204] }

\* the delete buttons of the view, by task id, in document order
TaskLists ==
    { l \in SeqsUpTo(1..MaxTasks, MaxTasks) :
        \A i, j \in 1..Len(l) : i # j => l[i] # l[j] }

Remove(l, id) == SelectSeq(l, LAMBDA x : x # id)

\* a wait for the list block, which is there with or without tasks
ListBlockVisible(l) == TRUE

\* waitForSelector('[data-testid="tasks-list"] li'): a list item shows up
ListItemVisible(l) == l # <<>>

\* a loop that takes the i-th button of the live list
NthButton(l, i) == IF i + 1 <= Len(l) THEN l[i + 1] ELSE 0

\* taskButtonsLocator.first(): the id of the first button, 0 when none is left
FirstButton(l, i) == IF l = <<>> THEN 0 ELSE Head(l)

\* the promise of globalTeardown resolved
Resolved == [kind |-> "void", list |-> <<>>, err |-> ""]

\* a teardown whose catch block throws the error again
Rethrown(e) == IF e = "" THEN Resolved ELSE Error(e)

\* catch (error) { console.error(...); tracing.stop } finally { close }: the
\* error is logged and the function returns normally
Swallowed(e) == Resolved

TeardownInit ==
    /\ InitCall
    /\ variant = "current"
    /\ prev = <<>>
    /\ cpc = "launch"
    /\ cargs = [kind |-> "globalTeardown"]
    /\ events = <<>>
    /\ \E l \in TaskLists :
        app = [kind |-> "teardown", tasks |-> l, initialCount |-> 0, i |-> 0,
               testId |-> 0, caught |-> "", logged |-> "", pending |-> "",
               browser |-> "none", page |-> FALSE, trace |-> "off",
               started |-> FALSE, stops |-> 0, closes |-> 0,
               clicked |-> <<>>, firsts |-> <<>>, faithful |-> TRUE]
    /\ cres = NoResult
    /\ createdId = Unset
    /\ mSpec = [url |-> <<>>, method |-> "GET", statusCode |-> 200]
    /\ mResp = NoResponse
    /\ mResult = "unset"

\* an error is thrown inside the try block: control goes to the catch block
Throw(e) ==
    /\ cpc' = "catch"
    /\ app' = [app EXCEPT !.caught = e]

tdFrame == <<cargs, cres, createdId>>

\* browser = await chromium.launch({headless: true})
TdLaunch ==
    /\ cpc = "launch"
    /\ NoCall
    /\ \/ /\ app' = [app EXCEPT !.browser = "open"]
          /\ cpc' = "newPage"
       \/ Throw("LaunchError")
    /\ UNCHANGED events
    /\ UNCHANGED tdFrame

\* page = await browser.newPage()
TdNewPage ==
    /\ cpc = "newPage"
    /\ NoCall
    /\ \/ /\ app' = [app EXCEPT !.page = TRUE]
          /\ cpc' = "traceStart"
       \/ Throw("PageError")
    /\ UNCHANGED events
    /\ UNCHANGED tdFrame

\* await page.context().tracing.start({...})
TdTraceStart ==
    /\ cpc = "traceStart"
    /\ NoCall
    /\ \/ /\ app' = [app EXCEPT !.trace = "on", !.started = TRUE]
          /\ cpc' = "goto"
       \/ Throw("TraceStartError")
    /\ UNCHANGED events
    /\ UNCHANGED tdFrame

\* new Login(page), new Interception(page), new Navigation(interception),
\* await page.goto(baseURL)
TdGoto ==
    /\ cpc = "goto"
    /\ NoCall
    /\ \/ cpc' = "signIn" /\ UNCHANGED app
       \/ Throw("NavigationError")
    /\ UNCHANGED events
    /\ UNCHANGED tdFrame

\* await login.signIn(USER, PASSWORD, statusCode): the fills, then the wait
\* for POST /api/login and the click on LOGIN
TdSignIn ==
    /\ cpc = "signIn"
    /\ StartCall(LoginIntercepts(200), Selector("#btn"), "omitted")
    /\ cpc' = "signedIn"
    /\ UNCHANGED events
    /\ UNCHANGED app
    /\ UNCHANGED tdFrame

\* await navigation.gotoTabRequests(navigationTabUrl, statusCode, tabChecklist)
TdGotoTab ==
    /\ cpc = "gotoTab"
    /\ StartCall(NavIntercepts(TasksUrl, 200), Selector("#btn"), "omitted")
    /\ cpc' = "tabOpen"
    /\ UNCHANGED events
    /\ UNCHANGED app
    /\ UNCHANGED tdFrame

\* the awaited helper returned: the statement after the await runs next.
\* After a delete the view may or may not have lost the task, the loop
\* counter is incremented and the loop condition is evaluated.
TdAwaited ==
    /\ cpc \in {"signedIn", "tabOpen", "deleted"}
    /\ Ended
    /\ result.kind \in {"this", "responses"}
    /\ NoCall
    /\ \/ /\ cpc = "signedIn"
          /\ cpc' = "gotoTab"
          /\ UNCHANGED app
       \/ /\ cpc = "tabOpen"
          /\ cpc' = "nextMonth"
          /\ UNCHANGED app
       \/ /\ cpc = "deleted"
          /\ \E l \in {app.tasks, Remove(app.tasks, app.testId)} :
              app' = [app EXCEPT
                        !.tasks = l, !.i = @ + 1,
                        !.faithful = @ /\ l = Remove(app.tasks, app.testId)]
          /\ cpc' = IF app.i + 1 < app.initialCount THEN "getAttr"
                    ELSE "traceStop"
    /\ UNCHANGED events
    /\ UNCHANGED tdFrame

\* the awaited helper threw: its error is thrown at the await
TdAwaitThrew ==
    /\ cpc \in {"signedIn", "tabOpen", "deleted"}
    /\ Ended
    /\ result.kind = "error"
    /\ NoCall
    /\ Throw(result.err)
    /\ UNCHANGED events
    /\ UNCHANGED tdFrame

\* await page.locator(btnNextMonth).click(); isVisible() never throws
TdNextMonth ==
    /\ cpc = "nextMonth"
    /\ NoCall
    /\ \/ cpc' = "waitList" /\ UNCHANGED app
       \/ TimeoutElapsed /\ Throw("ElementNotFound")
    /\ UNCHANGED events
    /\ UNCHANGED tdFrame

\* await page.waitForSelector(taskList, {timeout: 5000}): throws when the
\* list stays empty
TdWaitList ==
    /\ cpc = "waitList"
    /\ NoCall
    /\ IF ListItemVisible(app.tasks)
       THEN cpc' = "count" /\ UNCHANGED app
       ELSE Throw("ListItemTimeout")
    /\ UNCHANGED events
    /\ UNCHANGED tdFrame

\* const initialCount = await taskButtonsLocator.count(); for (let i = 0; ...
TdCount ==
    /\ cpc = "count"
    /\ NoCall
    /\ app' = [app EXCEPT !.initialCount = Len(app.tasks), !.i = 0]
    /\ cpc' = IF 0 < Len(app.tasks) THEN "getAttr" ELSE "traceStop"
    /\ UNCHANGED events
    /\ UNCHANGED tdFrame

\* const testId = await taskButtonsLocator.first().getAttribute('data-testid'):
\* every button the locator matches has the attribute; with no button left
\* the call times out
TdGetAttr ==
    /\ cpc = "getAttr"
    /\ NoCall
    /\ IF FirstButton(app.tasks, app.i) # 0
       THEN /\ app' = [app EXCEPT !.testId = FirstButton(app.tasks, app.i)]
            /\ cpc' = "delete"
       ELSE Throw("ElementNotFound")
    /\ UNCHANGED events
    /\ UNCHANGED tdFrame

\* await interception.interceptions([DELETE 204], uniqueSelector, true)
TdDelete ==
    /\ cpc = "delete"
    /\ StartCall(<<DeleteSpec>>, Selector("#btn"), "true")
    /\ cpc' = "deleted"
    /\ UNCHANGED events
    /\ app' = [app EXCEPT !.clicked = Append(@, app.testId),
                          !.firsts = Append(@, Head(app.tasks))]
    /\ UNCHANGED tdFrame

\* await page.context().tracing.stop({path: 'teardown_trace.zip'})
TdTraceStop ==
    /\ cpc = "traceStop"
    /\ NoCall
    /\ \/ /\ app' = [app EXCEPT !.trace = "saved", !.stops = @ + 1]
          /\ cpc' = "finally"
       \/ /\ app' = [app EXCEPT !.caught = "TraceStopError", !.stops = @ + 1]
          /\ cpc' = "catch"
    /\ UNCHANGED events
    /\ UNCHANGED tdFrame

\* catch (error) { console.error('Error in global teardown:', error);
\* if (page) { await tracing.stop({path: 'teardown_trace_error.zip'}) } }:
\* the stop call saves a running trace or rejects; on a trace that is not
\* running it saves nothing
TdCatch ==
    /\ cpc = "catch"
    /\ NoCall
    /\ IF app.page
       THEN \/ app' = [app EXCEPT
                         !.logged = app.caught, !.stops = @ + 1,
                         !.trace = IF @ = "on" THEN "savedOnError" ELSE @]
            \/ app' = [app EXCEPT
                         !.logged = app.caught, !.stops = @ + 1,
                         !.pending = "TraceStopOnErrorFailed"]
       ELSE app' = [app EXCEPT !.logged = app.caught]
    /\ cpc' = "finally"
    /\ UNCHANGED events
    /\ UNCHANGED tdFrame

\* finally { if (browser) { await browser.close() } }, then the function
\* returns, or throws what the catch block threw
TdFinally ==
    /\ cpc = "finally"
    /\ NoCall
    /\ app' = IF app.browser = "open"
              THEN [app EXCEPT !.browser = "closed", !.closes = @ + 1]
              ELSE app
    /\ cres' = IF app.pending # "" THEN Error(app.pending)
               ELSE Swallowed(app.caught)
    /\ cpc' = "done"
    /\ UNCHANGED events
    /\ UNCHANGED <<cargs, createdId>>

\* the browser observes a response while a helper call is suspended
TdRespond ==
    /\ ~InSyncSection
    /\ ip \in 1..Len(Body)
    /\ Len(traffic) < MaxTraffic
    /\ \E r \in TeardownResponses :
        /\ traffic' = Append(traffic, r)
        /\ waits' = Deliver(waits, intercepts, r, Len(traffic) + 1)
    /\ UNCHANGED <<variant, page, dom, intercepts, clickAction,
                   waitForResponses, ip, clickState, clickCalls, clicks,
                   invoked, clickAt, armCalls, endedAt, clock, result>>
    /\ UNCHANGED otherVars

TeardownNext ==
    \/ TdLaunch
    \/ TdNewPage
    \/ TdTraceStart
    \/ TdGoto
    \/ TdSignIn
    \/ TdGotoTab
    \/ TdAwaited
    \/ TdAwaitThrew
    \/ TdNextMonth
    \/ TdWaitList
    \/ TdCount
    \/ TdGetAttr
    \/ TdDelete
    \/ TdTraceStop
    \/ TdCatch
    \/ TdFinally
    \/ TdRespond
    \/ Arm
    \/ IssueClick
    \/ ClickDone
    \/ ClickFail
    \/ Tick
    \/ Timeout
    \/ Return
    \/ Reject

TeardownSpec == TeardownInit /\ [][TeardownNext]_vars

\* the number of helper calls the teardown has made
CallsMade == Len(prev) + (IF ip = 0 THEN 0 ELSE 1)

\* C16 as stated: an error raised inside the support code, globalTeardown
\* included, reaches the caller as a failure.
C16_EveryErrorPropagates ==
    (cpc = "done" /\ app.caught # "") => cres.kind = "error"

\* C16, amended: an error raised inside interceptions, signIn or
\* gotoTabRequests is thrown to the caller of the helper unchanged and
\* nothing is retried; globalTeardown catches every error raised inside its
\* try block, logs it, repeats no step and never throws it again: it returns
\* normally unless the tracing.stop of the catch block fails itself.
C16_HelpersPropagateTeardownCatches ==
    /\ result.kind = "error" =>
        /\ clickCalls <= 1
        /\ cpc \in {"signedIn", "tabOpen", "deleted", "catch", "finally",
                    "done"}
        /\ cpc \in {"catch", "finally", "done"} => app.caught = result.err
        /\ \A k \in 1..Len(prev) : prev[k].result.kind # "error"
    /\ \A k \in 1..Len(prev) : prev[k].clickCalls <= 1
    /\ CallsMade <= 2 + app.initialCount
    /\ app.caught # "" =>
        /\ cpc \in {"catch", "finally", "done"}
        /\ cpc \in {"finally", "done"} => app.logged = app.caught
    /\ cpc = "done" =>
        /\ app.pending = "" => cres = Resolved
        /\ cres.kind = "error" =>
            (cres.err = "TraceStopOnErrorFailed" /\ cres.err # app.caught)
        /\ app.browser # "open"
        /\ app.caught = "" => app.trace = "saved"

\* the second delete call timed out waiting for DELETE 204 and the teardown
\* returned normally all the same
C16_Witness ==
    /\ cpc = "done"
    /\ cres = Resolved
    /\ app.logged = "InterceptionTimeout"
    /\ result = Error("InterceptionTimeout")
    /\ intercepts = <<DeleteSpec>>
    /\ Len(prev) = 3

----------------------------------------------------------------------------
(* Leave requests: test 'Incorrect data'.  Texts are sequences of symbols:  *)
(* "p" and "d" stand for the two halves of the message, " " for white space *)

ExpectedText == <<"p", " ", "d">>

AlertTexts == SeqsUpTo({"p", " ", "d"}, MaxTextLen)

RECURSIVE TrimStart(_)
TrimStart(t) ==
    IF t # <<>> /\ Head(t) = " " THEN TrimStart(Tail(t)) ELSE t

RECURSIVE TrimEnd(_)
TrimEnd(t) ==
    IF t # <<>> /\ t[Len(t)] = " " THEN TrimEnd(SubSeq(t, 1, Len(t) - 1))
    ELSE t

RECURSIVE Collapse(_)
Collapse(t) ==
    IF Len(t) < 2 THEN t
    ELSE IF t[1] = " " /\ t[2] = " " THEN Collapse(Tail(t))
    ELSE <<t[1]>> \o Collapse(Tail(t))

\* what expect does to both texts when the expected value is a string
NormalizeWhiteSpace(t) == Collapse(TrimEnd(TrimStart(t)))

\* expect(locator).toContainText(expected)
ContainsText(t, expected) ==
    Includes(NormalizeWhiteSpace(t), NormalizeWhiteSpace(expected))

\* expect(locator).toHaveText(expected), expected a string
HasText(t, expected) ==
    NormalizeWhiteSpace(t) = NormalizeWhiteSpace(expected)

IncorrectBody == <<"clickSubmit", "expectAlert">>

IncorrectStmt ==
    IF cpc \in 1..Len(IncorrectBody) THEN IncorrectBody[cpc] ELSE "none"

IncorrectInit ==
    /\ InitCall
    /\ variant = "current"
    /\ prev = <<>>
    /\ cpc = 1
    /\ cargs = [kind |-> "incorrectData"]
    /\ events = <<>>
    /\ app = [kind |-> "alert", text |-> <<>>]
    /\ cres = NoResult
    /\ createdId = Unset
    /\ mSpec = [url |-> <<>>, method |-> "GET", statusCode |-> 200]
    /\ mResp = NoResponse
    /\ mResult = "unset"

\* await page.locator(selectors.submitButton).click()
ClickSubmit ==
    /\ IncorrectStmt = "clickSubmit"
    /\ NoCall
    /\ events' = Logged("clickSubmit")
    /\ \/ cpc' = cpc + 1 /\ UNCHANGED cres
       \/ /\ TimeoutElapsed
          /\ cpc' = Len(IncorrectBody) + 1
          /\ cres' = Error("ElementNotFound")
    /\ UNCHANGED <<cargs, app, createdId>>

\* await expect(page.locator(selectors.alertMessage)).toHaveText('Please
\* select both start and end dates.'), the last statement of the test
ExpectAlert ==
    /\ IncorrectStmt = "expectAlert"
    /\ NoCall
    /\ events' = Logged("expectAlert")
    /\ \E t \in AlertTexts :
        /\ app' = [app EXCEPT !.text = t]
        /\ cres' = IF HasText(t, ExpectedText) THEN Passed
                   ELSE Error("AssertionMismatch")
    /\ cpc' = cpc + 1
    /\ UNCHANGED <<cargs, createdId>>

\* the browser observes a response; the test has registered no wait
IncorrectRespond ==
    /\ cpc <= Len(IncorrectBody)
    /\ Len(traffic) < MaxTraffic
    /\ \E r \in LeaveResponses :
        /\ traffic' = Append(traffic, r)
        /\ waits' = Deliver(waits, intercepts, r, Len(traffic) + 1)
    /\ UNCHANGED <<variant, page, dom, intercepts, clickAction,
                   waitForResponses, ip, clickState, clickCalls, clicks,
                   invoked, clickAt, armCalls, endedAt, clock, result>>
    /\ UNCHANGED otherVars

\* time passes while the click waits for the button
IncorrectTick ==
    /\ IncorrectStmt = "clickSubmit"
    /\ clock < TimeoutTicks
    /\ clock' = clock + 1
    /\ UNCHANGED <<variant, page, dom, intercepts, clickAction,
                   waitForResponses, ip, waits, clickState, clickCalls,
                   clicks, invoked, clickAt, armCalls, endedAt, traffic,
                   result>>
    /\ UNCHANGED otherVars

IncorrectNext ==
    \/ ClickSubmit
    \/ ExpectAlert
    \/ IncorrectRespond
    \/ IncorrectTick

IncorrectSpec == IncorrectInit /\ [][IncorrectNext]_vars

\* a POST to /api/leave was observed after the submit click
PostAfterSubmit ==
    \E i \in 1..Len(events) :
        /\ events[i].op = "clickSubmit"
        /\ \E j \in (events[i].at + 1)..Len(traffic) :
            /\ traffic[j].method = "POST"
            /\ Includes(traffic[j].url, LeaveUrl)

\* C18 as stated: the test passes only if the alert text is exactly the
\* message and no POST to /api/leave was observed after the click.
C18_PassesOnlyWithoutPost ==
    cres = Passed => (app.text = ExpectedText /\ ~PostAfterSubmit)

\* C18, amended: the test passes exactly when the submit click was performed
\* and the alert text equals the message after white space is normalised;
\* the responses the page observes have no part in the verdict.
C18_PassesOnAlertTextAlone ==
    /\ cres = Passed =>
        /\ Did("clickSubmit")
        /\ Did("expectAlert")
        /\ NormalizeWhiteSpace(app.text) = ExpectedText
    /\ (Did("expectAlert") /\ NormalizeWhiteSpace(app.text) = ExpectedText) =>
        cres = Passed
    /\ cres.kind = "error" =>
        \/ cres.err = "ElementNotFound" /\ ~Did("expectAlert")
        \/ /\ cres.err = "AssertionMismatch"
           /\ NormalizeWhiteSpace(app.text) # ExpectedText

\* the test passed although a POST to /api/leave came after the click
C18_Witness ==
    /\ cres = Passed
    /\ PostAfterSubmit
    /\ app.text = ExpectedText

----------------------------------------------------------------------------
(* Checklist: the tests that create a task, check it and remove it, and the *)
(* month-close test up to the click on the close-month button.  The tests   *)
(* share fillTaskForm, submitTaskForm and the module-level createdId.       *)

TaskPostSpec == [url |-> TasksUrl, method |-> "POST", statusCode |-> 201]

TaskResponses ==
    { [url |-> <<"h", "t">>, method |-> "POST", status |-> 201],
      [url |-> <<"h", "t">>, method |-> "DELETE", status |-> 204] }

\* 'Creating new task with free amount'
FreeTaskBody ==
    <<"fillFree", "submit", "store", "checkData", "removeTask", "expectGone">>

\* 'Creating new task with amount'
PaidTaskBody ==
    <<"fillPaid", "submit", "store", "checkData", "removeTask", "expectGone">>

\* the month-close test with the checkbox located and clicked after the
\* second creation
MonthBodyCheckLate ==
    <<"fillFree", "submit", "store", "fillPaid", "submit", "store",
      "locateCheckbox", "clickCheckbox", "closeMonth">>

\* 'Moving tasks to next month free and paid type', up to the click on the
\* close-month button
MonthBody ==
    <<"fillFree", "submit", "store", "locateCheckbox", "clickCheckbox",
      "fillPaid", "submit", "store", "closeMonth">>

TestBody ==
    CASE cargs.kind = "free" -> FreeTaskBody
      [] cargs.kind = "paid" -> PaidTaskBody
      [] cargs.kind = "month" -> MonthBody

TestStmt == IF cpc \in 1..Len(TestBody) THEN TestBody[cpc] ELSE "none"

TestEnd == Len(TestBody) + 1

\* the checklist as the page shows it: the tasks by id, the type chosen in
\* the form, the id freeTaskCheckbox was built with, the checkboxes clicked
NoTasks == [id \in {} |-> [type |-> "", completed |-> FALSE]]

ChecklistInit(kinds) ==
    /\ InitCall
    /\ variant = "current"
    /\ prev = <<>>
    /\ cpc = 1
    /\ \E k \in kinds : cargs = [kind |-> k]
    /\ events = <<>>
    /\ app = [kind |-> "checklist", tasks |-> NoTasks, form |-> "",
              freeTaskCheckbox |-> 0, boxesClicked |-> <<>>]
    /\ cres = NoResult
    /\ createdId = Unset
    /\ mSpec = [url |-> <<>>, method |-> "GET", statusCode |-> 200]
    /\ mResp = NoResponse
    /\ mResult = "unset"

\* fillTaskForm({page}, name, type, price)
FillTaskForm ==
    /\ TestStmt \in {"fillFree", "fillPaid"}
    /\ NoCall
    /\ app' = [app EXCEPT !.form = IF TestStmt = "fillFree" THEN "Free"
                                   ELSE "Paid"]
    /\ events' = Logged(TestStmt)
    /\ cpc' = cpc + 1
    /\ UNCHANGED <<cargs, cres, createdId>>

\* submitTaskForm: interceptions([POST /api/tasks 201], btnCreateTask, true)
SubmitTaskForm ==
    /\ TestStmt = "submit"
    /\ StartCall(<<TaskPostSpec>>, Selector("#btn"), "true")
    /\ events' = Logged("submit")
    /\ cpc' = cpc + 1
    /\ UNCHANGED <<cargs, app, cres, createdId>>

\* submitTaskForm: createdId = data.id; the list shows the new task
StoreTaskId ==
    /\ TestStmt = "store"
    /\ Ended
    /\ result.kind = "responses"
    /\ NoCall
    /\ \E id \in Ids \ DOMAIN app.tasks :
        /\ createdId' = StoredId(createdId, id)
        /\ app' = [app EXCEPT !.tasks =
                      [i \in DOMAIN app.tasks \cup {id} |->
                          IF i = id
                          THEN [type |-> app.form, completed |-> FALSE]
                          ELSE app.tasks[i]]]
        /\ events' = Append(events, [op |-> "store", at |-> Len(traffic),
                                     id |-> id])
    /\ cpc' = cpc + 1
    /\ UNCHANGED <<cargs, cres>>

\* the checkbox of task id is clicked: the task is completed, or not any more
Toggle(tasks, id) ==
    [i \in DOMAIN tasks |->
        IF i = id THEN [tasks[i] EXCEPT !.completed = ~@] ELSE tasks[i]]

\* checkDataInTask: the checkbox of createdId is unchecked, is clicked and is
\* then checked, and the name and the type are as entered
CheckDataInTask ==
    /\ TestStmt = "checkData"
    /\ NoCall
    /\ events' = Logged("checkData")
    /\ \/ /\ app' = [app EXCEPT !.tasks = Toggle(@, createdId),
                                !.boxesClicked = Append(@, createdId)]
          /\ cpc' = cpc + 1
          /\ UNCHANGED cres
       \/ /\ cres' = Error("AssertionMismatch")
          /\ cpc' = TestEnd
          /\ UNCHANGED app
    /\ UNCHANGED <<cargs, createdId>>

\* removeTask: interceptions([DELETE /api/tasks 204],
\* `[data-testid="task-delete-button-${createdId}"]`)
RemoveTask ==
    /\ TestStmt = "removeTask"
    /\ StartCall(<<DeleteSpec>>, Selector("#btn"), "omitted")
    /\ events' = Logged("removeTask")
    /\ cpc' = cpc + 1
    /\ UNCHANGED <<cargs, app, cres, createdId>>

\* the application takes the deleted task off the list, some time after the
\* click on its delete button
TaskVanishes ==
    /\ intercepts = <<DeleteSpec>>
    /\ clicks >= 1
    /\ cpc < TestEnd
    /\ createdId \in DOMAIN app.tasks
    /\ ip \in {Len(Body), Len(Body) + 1}
    /\ app' = [app EXCEPT !.tasks =
                  [i \in DOMAIN app.tasks \ {createdId} |-> app.tasks[i]]]
    /\ UNCHANGED callVars
    /\ UNCHANGED <<prev, cpc, cargs, events, cres, createdId>>
    /\ UNCHANGED matcherVars

\* removeTask: expect(locator(task-item-createdId)).toHaveCount(0), the
\* outcome of the assertion when its retries are over
ExpectGone ==
    /\ TestStmt = "expectGone"
    /\ Ended
    /\ result.kind = "this"
    /\ NoCall
    /\ events' = Logged("expectGone")
    /\ cres' = IF createdId \notin DOMAIN app.tasks THEN Passed
               ELSE Error("AssertionMismatch")
    /\ cpc' = TestEnd
    /\ UNCHANGED <<cargs, app, createdId>>

\* the awaited interceptions call threw: the test fails with its error
TaskCallFailed ==
    /\ TestStmt \in {"store", "expectGone"}
    /\ Ended
    /\ result.kind = "error"
    /\ NoCall
    /\ cres' = result
    /\ cpc' = TestEnd
    /\ UNCHANGED <<cargs, events, app, createdId>>

\* the browser observes a response of /api/tasks
TaskRespond ==
    /\ ~InSyncSection
    /\ cpc < TestEnd
    /\ Len(traffic) < MaxTraffic
    /\ \E r \in TaskResponses :
        /\ traffic' = Append(traffic, r)
        /\ waits' = Deliver(waits, intercepts, r, Len(traffic) + 1)
    /\ UNCHANGED <<variant, page, dom, intercepts, clickAction,
                   waitForResponses, ip, clickState, clickCalls, clicks,
                   invoked, clickAt, armCalls, endedAt, clock, result>>
    /\ UNCHANGED otherVars

TaskInit == ChecklistInit({"free", "paid"})

TaskNext ==
    \/ FillTaskForm
    \/ SubmitTaskForm
    \/ StoreTaskId
    \/ CheckDataInTask
    \/ RemoveTask
    \/ TaskVanishes
    \/ ExpectGone
    \/ TaskCallFailed
    \/ TaskRespond
    \/ Arm
    \/ IssueClick
    \/ ClickDone
    \/ ClickFail
    \/ Tick
    \/ Timeout
    \/ Return
    \/ Reject

TaskSpec == TaskInit /\ [][TaskNext]_vars

\* the removeTask call is the current interceptions call
Removing == \E i \in 1..Len(events) : events[i].op = "removeTask"

\* C19: in removeTask the delete button of the task createdId names is
\* clicked only after the wait for DELETE /api/tasks 204 is armed, the count
\* of the task node is asserted only after that response was observed, and
\* removeTask fails when the response or the removal does not occur.
C19_RemoveTaskOrdered ==
    /\ \A i \in 1..Len(events) :
        events[i].op = "removeTask" => events[i].id = createdId
    /\ (Removing /\ clickCalls >= 1) =>
        /\ intercepts = <<DeleteSpec>>
        /\ Len(waits) = 1
        /\ waits[1].armed <= clickAt
    /\ Did("expectGone") =>
        /\ waits[1].state = "resolved"
        /\ Matches(waits[1].resp, DeleteSpec)
        /\ waits[1].at > waits[1].armed
        /\ \A i \in 1..Len(events) :
            events[i].op = "expectGone" => waits[1].at <= events[i].at
    /\ cres = Passed =>
        /\ Did("expectGone")
        /\ createdId \notin DOMAIN app.tasks
    /\ (Removing /\ cpc = TestEnd) =>
        /\ result.kind = "error" => cres = result
        /\ createdId \in DOMAIN app.tasks => cres.kind = "error"

\* removeTask passed; a DELETE 204 that came before the call did not count
C19_Witness ==
    /\ cres = Passed
    /\ Removing
    /\ waits[1].at = 4
    /\ \E j \in 1..waits[1].armed : Matches(traffic[j], DeleteSpec)

----------------------------------------------------------------------------
(* Month close *)

\* const freeTaskCheckbox = page.locator(`...${createdId}`): the template is
\* evaluated now, with the id of the task created last
LocateCheckbox ==
    /\ TestStmt = "locateCheckbox"
    /\ NoCall
    /\ app' = [app EXCEPT !.freeTaskCheckbox = createdId]
    /\ events' = Logged("locateCheckbox")
    /\ cpc' = cpc + 1
    /\ UNCHANGED <<cargs, cres, createdId>>

\* await freeTaskCheckbox.click()
ClickCheckbox ==
    /\ TestStmt = "clickCheckbox"
    /\ NoCall
    /\ events' = Logged("clickCheckbox")
    /\ \/ /\ app' = [app EXCEPT
                       !.tasks = Toggle(@, app.freeTaskCheckbox),
                       !.boxesClicked = Append(@, app.freeTaskCheckbox)]
          /\ cpc' = cpc + 1
          /\ UNCHANGED cres
       \/ /\ cres' = Error("ElementNotActionable")
          /\ cpc' = TestEnd
          /\ UNCHANGED app
    /\ UNCHANGED <<cargs, createdId>>

\* await page.locator(selectors.btnCloseMonth).click()
CloseMonth ==
    /\ TestStmt = "closeMonth"
    /\ NoCall
    /\ events' = Logged("closeMonth")
    /\ cpc' = cpc + 1
    /\ UNCHANGED <<cargs, app, cres, createdId>>

MonthInit == ChecklistInit({"month"})

MonthNext ==
    \/ FillTaskForm
    \/ SubmitTaskForm
    \/ StoreTaskId
    \/ LocateCheckbox
    \/ ClickCheckbox
    \/ CloseMonth
    \/ TaskCallFailed
    \/ TaskRespond
    \/ Arm
    \/ IssueClick
    \/ ClickDone
    \/ ClickFail
    \/ Tick
    \/ Timeout
    \/ Return
    \/ Reject

MonthSpec == MonthInit /\ [][MonthNext]_vars

Completed == {i \in DOMAIN app.tasks : app.tasks[i].completed}

\* C20: when the close-month button is clicked, exactly one of the two
\* tasks created is completed and it is the Free one; the checkbox clicked
\* is that of the first creation although createdId by then names the
\* second, Paid, task, whose checkbox is never clicked.
C20_OnlyFreeTaskCompleted ==
    /\ \A k \in 1..Len(app.boxesClicked) :
        /\ app.boxesClicked[k] \in DOMAIN app.tasks
        /\ app.tasks[app.boxesClicked[k]].type = "Free"
    /\ Did("closeMonth") =>
        /\ Cardinality(DOMAIN app.tasks) = 2
        /\ Cardinality(Completed) = 1
        /\ \A i \in Completed : app.tasks[i].type = "Free"
        /\ app.boxesClicked = <<app.freeTaskCheckbox>>
        /\ createdId # app.freeTaskCheckbox
        /\ app.tasks[createdId].type = "Paid"
        /\ ~app.tasks[createdId].completed

\* the close-month button was clicked; the Free task got the higher id
C20_Witness ==
    /\ Did("closeMonth")
    /\ createdId = 1
    /\ app.freeTaskCheckbox = 2
    /\ app.tasks[2].completed

----------------------------------------------------------------------------
(* The older coordinator without a click target *)

\* C21: a call of the older coordinator without a click target performs no
\* action on the page, waits for all the specified responses and returns
\* the instance.
C21_OlderNoActionWaits ==
    (variant = "older" /\ ip >= 1 /\ clickAction = Undefined) =>
        /\ clickCalls = 0
        /\ clickState = "none"
        /\ Ended => (result = This <=> AllResolved(waits))
        /\ (Ended /\ AllResolved(waits)) => Returned

----------------------------------------------------------------------------
(* globalTeardown: the delete loop *)

\* the interceptions calls made so far, the current one last
AllCalls == IF ip = 0 THEN prev ELSE Append(prev, Snapshot)

DeleteCalls == SelectSeq(AllCalls, LAMBDA c : c.intercepts = <<DeleteSpec>>)

\* the try block ran to its end and every delete took the clicked task, and
\* only that task, off the list
CleanRun ==
    /\ cpc \in {"finally", "done"}
    /\ app.caught = ""
    /\ app.faithful

\* C22: every delete click of globalTeardown is on the button that is first
\* in the list at that time; in a run where every step succeeds and each
\* confirmed delete removes exactly the clicked task there are exactly
\* initialCount delete clicks, each followed by an observed DELETE
\* /api/tasks 204 response before the next click, and no task is left.
C22_TeardownDeletesAll ==
    /\ app.clicked = app.firsts
    /\ Len(DeleteCalls) = Len(app.clicked)
    /\ \A k \in 1..Len(DeleteCalls) : DeleteCalls[k].clickCalls <= 1
    /\ \A k \in 1..(Len(DeleteCalls) - 1) :
        /\ DeleteCalls[k].clickCalls = 1
        /\ DeleteCalls[k].waits[1].state = "resolved"
        /\ Matches(DeleteCalls[k].waits[1].resp, DeleteSpec)
        /\ DeleteCalls[k].waits[1].at > DeleteCalls[k].waits[1].armed
        /\ DeleteCalls[k + 1].clickCalls = 1 =>
            DeleteCalls[k].waits[1].at <= DeleteCalls[k + 1].clickAt
    /\ CleanRun =>
        /\ Len(DeleteCalls) = app.initialCount
        /\ app.i = app.initialCount
        /\ \A k \in 1..Len(DeleteCalls) :
            /\ DeleteCalls[k].clickCalls = 1
            /\ DeleteCalls[k].clickState = "done"
            /\ DeleteCalls[k].waits[1].state = "resolved"
        /\ \A j, k \in 1..Len(app.clicked) :
            j # k => app.clicked[j] # app.clicked[k]
        /\ app.tasks = <<>>

\* two tasks were shown and both were deleted, the second listed first
C22_Witness ==
    /\ CleanRun
    /\ cpc = "done"
    /\ app.initialCount = 2
    /\ app.clicked = <<2, 1>>
    /\ app.tasks = <<>>

----------------------------------------------------------------------------
(* globalTeardown: nothing to delete *)

\* the next-month view showed no task when the teardown started
NoTaskShown == app.tasks = <<>> /\ app.clicked = <<>>

----------------------------------------------------------------------------
(* globalTeardown: the browser and the trace *)

\* the browser half of C29: a launched browser is closed exactly once
BrowserClosedOnce ==
    /\ app.closes <= 1
    /\ app.closes = 1 <=> app.browser = "closed"
    /\ cpc = "done" => app.browser # "open"

\* C29: in every run in which the browser was launched it is closed exactly
\* once before the function ends, whichever step fails, and tracing is
\* stopped (tracing.stop is called) only if it was started and at most once.
C29_ClosedOnceStoppedOnce ==
    /\ BrowserClosedOnce
    /\ app.stops <= 1
    /\ app.stops >= 1 => app.started

----------------------------------------------------------------------------
(* Month close: the cleanup loop over the carried-over tasks.  buttons is a *)
(* live locator: nth(i) is resolved against the list as it is at the click. *)

\* buttons.nth(i): the id of the i-th delete button, 0 when there is none
ButtonsNth(l, i) == IF i + 1 <= Len(l) THEN l[i + 1] ELSE 0

\* every task whose delete button was clicked has left the list
ClickedGone == \A k \in 1..Len(app.clicked) :
                  \A j \in 1..Len(app.tasks) : app.tasks[j] # app.clicked[k]

CleanupInit ==
    /\ InitCall
    /\ variant = "current"
    /\ prev = <<>>
    /\ cpc = "count"
    /\ cargs = [kind |-> "cleanup"]
    /\ events = <<>>
    /\ \E l \in TaskLists :
        app = [kind |-> "cleanup", tasks |-> l, count |-> 0, i |-> 0,
               clicked |-> <<>>, faithful |-> TRUE]
    /\ cres = NoResult
    /\ createdId = Unset
    /\ mSpec = [url |-> <<>>, method |-> "GET", statusCode |-> 200]
    /\ mResp = NoResponse
    /\ mResult = "unset"

\* const count = await buttons.count(); for (let i = 0; i < count; ...
ClCount ==
    /\ cpc = "count"
    /\ NoCall
    /\ app' = [app EXCEPT !.count = Len(app.tasks), !.i = 0]
    /\ IF Len(app.tasks) > 0
       THEN cpc' = "clickNth" /\ UNCHANGED cres
       ELSE cpc' = "end" /\ cres' = Passed
    /\ UNCHANGED <<cargs, events, createdId>>

\* await buttons.nth(i).click(): the button is clicked, or there is no i-th
\* button and the click rejects at the timeout
ClClickNth ==
    /\ cpc = "clickNth"
    /\ NoCall
    /\ IF ButtonsNth(app.tasks, app.i) # 0
       THEN /\ app' = [app EXCEPT
                         !.clicked = Append(@, ButtonsNth(app.tasks, app.i)),
                         !.faithful = @ /\ ClickedGone]
            /\ events' = Logged("click")
            /\ cpc' = "wait"
            /\ UNCHANGED cres
       ELSE /\ TimeoutElapsed
            /\ cres' = Error("ElementNotFound")
            /\ cpc' = "end"
            /\ UNCHANGED <<app, events>>
    /\ UNCHANGED <<cargs, createdId>>

\* await interception.interceptions([DELETE /api/tasks 204]), no click target
ClWait ==
    /\ cpc = "wait"
    /\ StartCall(<<DeleteSpec>>, Undefined, "omitted")
    /\ cpc' = "waited"
    /\ UNCHANGED <<cargs, events, app, cres, createdId>>

\* the call returned: i++ and the loop condition; or it threw
ClWaited ==
    /\ cpc = "waited"
    /\ Ended
    /\ NoCall
    /\ IF result.kind = "error"
       THEN /\ cres' = result
            /\ cpc' = "end"
            /\ UNCHANGED app
       ELSE /\ app' = [app EXCEPT !.i = @ + 1]
            /\ IF app.i + 1 < app.count
               THEN cpc' = "clickNth" /\ UNCHANGED cres
               ELSE cpc' = "end" /\ cres' = Passed
    /\ UNCHANGED <<cargs, events, createdId>>

\* the application takes a task whose delete button was clicked off the list
ClVanish ==
    /\ cpc # "end"
    /\ \E k \in 1..Len(app.clicked) :
        /\ \E j \in 1..Len(app.tasks) : app.tasks[j] = app.clicked[k]
        /\ app' = [app EXCEPT !.tasks = Remove(@, app.clicked[k])]
    /\ UNCHANGED callVars
    /\ UNCHANGED <<prev, cpc, cargs, events, cres, createdId>>
    /\ UNCHANGED matcherVars

\* the browser observes a response
ClRespond ==
    /\ ~InSyncSection
    /\ cpc \notin {"count", "end"}
    /\ Len(traffic) < MaxTraffic
    /\ \E r \in TaskResponses :
        /\ traffic' = Append(traffic, r)
        /\ waits' = Deliver(waits, intercepts, r, Len(traffic) + 1)
    /\ UNCHANGED <<variant, page, dom, intercepts, clickAction,
                   waitForResponses, ip, clickState, clickCalls, clicks,
                   invoked, clickAt, armCalls, endedAt, clock, result>>
    /\ UNCHANGED otherVars

\* time passes while the click waits for a button
ClTick ==
    /\ cpc = "clickNth"
    /\ clock < TimeoutTicks
    /\ clock' = clock + 1
    /\ UNCHANGED <<variant, page, dom, intercepts, clickAction,
                   waitForResponses, ip, waits, clickState, clickCalls,
                   clicks, invoked, clickAt, armCalls, endedAt, traffic,
                   result>>
    /\ UNCHANGED otherVars

CleanupNext ==
    \/ ClCount
    \/ ClClickNth
    \/ ClWait
    \/ ClWaited
    \/ ClVanish
    \/ ClRespond
    \/ ClTick
    \/ Arm
    \/ SkipClick
    \/ Tick
    \/ Timeout
    \/ Return
    \/ Reject

CleanupSpec == CleanupInit /\ [][CleanupNext]_vars

\* the k-th click of the loop, as logged
ClickEvents == SelectSeq(events, LAMBDA e : e.op = "click")

\* the waits the loop has armed, in order
ArmedDeleteCalls == SelectSeq(DeleteCalls, LAMBDA c : Len(c.waits) = 1)

\* C23: at every step that correlates a click with an expected response,
\* the cleanup loop included, the wait is registered before the click is
\* issued, so no response arrives after the click and before its wait is
\* armed.
C23_WaitArmedBeforeEveryClick ==
    \A k \in 1..Len(ClickEvents) :
        /\ k <= Len(ArmedDeleteCalls) =>
            ArmedDeleteCalls[k].waits[1].armed <= ClickEvents[k].at
        /\ k > Len(ArmedDeleteCalls) =>
            \A j \in (ClickEvents[k].at + 1)..Len(traffic) :
                ~Matches(traffic[j], DeleteSpec)

\* C24: with each delete removing the clicked task from the live list
\* before the next click, every iteration of the cleanup loop finds a button
\* to click at buttons.nth(i), and the list is empty when the loop is over.
C24_CleanupLoopDeletesAll ==
    app.faithful =>
        /\ cpc = "clickNth" => ButtonsNth(app.tasks, app.i) # 0
        /\ (cpc = "end" /\ ClickedGone) =>
            (cres = Passed /\ app.tasks = <<>>)

----------------------------------------------------------------------------
(* The tests of the Checklist file, one after another in one worker *)

\* the tests of the file that use createdId; the test of a Paid task runs
\* the steps of the test of a Free task and is left to TaskSpec
ChecklistTests == {"free", "month"}

SuiteInit == ChecklistInit(ChecklistTests)

\* the runner starts the next test of the file: a new page and a new
\* fixture, while the module-level createdId keeps what the last test left
NextTest ==
    /\ cpc = TestEnd
    /\ \E k \in ChecklistTests : cargs' = [kind |-> k]
    /\ cpc' = 1
    /\ prev' = <<>>
    /\ events' = <<>>
    /\ app' = [kind |-> "checklist", tasks |-> NoTasks, form |-> "",
               freeTaskCheckbox |-> 0, boxesClicked |-> <<>>]
    /\ cres' = NoResult
    /\ intercepts' = <<>>
    /\ clickAction' = Undefined
    /\ waitForResponses' = "omitted"
    /\ ip' = 0
    /\ waits' = <<>>
    /\ clickState' = "none"
    /\ clickCalls' = 0
    /\ clicks' = 0
    /\ invoked' = 0
    /\ clickAt' = 0
    /\ armCalls' = 0
    /\ endedAt' = 0
    /\ traffic' = <<>>
    /\ clock' = 0
    /\ dom' = Unqueried
    /\ result' = NoResult
    /\ UNCHANGED <<variant, page, createdId>>
    /\ UNCHANGED matcherVars

SuiteNext ==
    \/ NextTest
    \/ FillTaskForm
    \/ SubmitTaskForm
    \/ StoreTaskId
    \/ CheckDataInTask
    \/ RemoveTask
    \/ TaskVanishes
    \/ ExpectGone
    \/ LocateCheckbox
    \/ ClickCheckbox
    \/ CloseMonth
    \/ TaskCallFailed
    \/ TaskRespond
    \/ Arm
    \/ IssueClick
    \/ ClickDone
    \/ ClickFail
    \/ Tick
    \/ Timeout
    \/ Return
    \/ Reject

SuiteSpec == SuiteInit /\ [][SuiteNext]_vars

\* the steps that read createdId and the steps that write it
ReadSteps ==
    {"checkData", "removeTask", "expectGone", "locateCheckbox",
     "readFirst", "action", "expectStatus", "readLast"}

WriteSteps == {"store", "storeId"}

\* the last creation step of the running test before its step i, 0 if none
LastWrite(i) ==
    LET W == {j \in 1..(i - 1) : events[j].op \in WriteSteps}
    IN  IF W = {} THEN 0 ELSE CHOOSE j \in W : \A k \in W : k <= j

\* C25: in a test run sequentially, every step that reads createdId comes
\* after a creation step of the same test, which itself follows the
\* submitting call of that test, and the value it reads is the id that
\* creation step stored last: never an unset value, never the id an
\* earlier test left behind.
C25_ReadsFollowOwnWrite ==
    \A i \in 1..Len(events) :
        /\ events[i].op \in ReadSteps =>
            /\ LastWrite(i) > 0
            /\ events[i].id = events[LastWrite(i)].id
            /\ events[i].id # Unset
        /\ events[i].op \in WriteSteps =>
            /\ i > 1
            /\ events[i - 1].op = "submit"
            /\ createdId # Unset

\* a test reads the id it stored while the previous test had left another
C25_Witness ==
    /\ Len(events) >= 4
    /\ events[1].id # Unset
    /\ events[3].op = "store"
    /\ events[3].id # events[1].id
    /\ events[4].op \in ReadSteps
    /\ events[4].id = createdId

----------------------------------------------------------------------------
(* Two scenarios of the Leave Requests file whose steps interleave *)

Scenarios == {1, 2}

\* the steps of a scenario that write or read createdId, between awaits:
\* chooseTypeOfRequest, getCardData, clickButtonStatus, getCardData
ScenarioBody == <<"storeId", "readFirst", "action", "readLast">>

\* an identifier of its own for each scenario
OwnId(s) == app.own[s]

\* ${createdId}: the identifier a step of scenario s builds its locator with
ReadId(s) == createdId

InterleaveInit ==
    /\ InitCall
    /\ variant = "current"
    /\ prev = <<>>
    /\ cpc = 0
    /\ cargs = NoArgs
    /\ events = <<>>
    /\ app = [kind |-> "interleave",
              pc |-> [s \in Scenarios |-> 1],
              own |-> [s \in Scenarios |-> Unset]]
    /\ cres = NoResult
    /\ createdId = Unset
    /\ mSpec = [url |-> <<>>, method |-> "GET", statusCode |-> 200]
    /\ mResp = NoResponse
    /\ mResult = "unset"

\* chooseTypeOfRequest of scenario s resumes with the POST response: the
\* server gave the request an id no other request has
ScCreate ==
    \E s \in Scenarios :
        /\ app.pc[s] = 1
        /\ NoCall
        /\ \E id \in Ids \ {app.own[t] : t \in Scenarios} :
            /\ createdId' = StoredId(createdId, id)
            /\ app' = [app EXCEPT !.pc[s] = 2, !.own[s] = id]
            /\ events' = Append(events, [op |-> ScenarioBody[1], at |-> 0,
                                         id |-> id, who |-> s])
        /\ UNCHANGED <<cpc, cargs, cres>>

\* getCardData or clickButtonStatus of scenario s: the card or the button
\* it acts on is the one of the identifier it reads
ScRead ==
    \E s \in Scenarios :
        /\ app.pc[s] \in 2..Len(ScenarioBody)
        /\ NoCall
        /\ app' = [app EXCEPT !.pc[s] = @ + 1]
        /\ events' = Append(events, [op |-> ScenarioBody[app.pc[s]],
                                     at |-> 0, id |-> ReadId(s),
                                     who |-> s])
        /\ UNCHANGED <<cpc, cargs, cres, createdId>>

InterleaveNext ==
    \/ ScCreate
    \/ ScRead

InterleaveSpec == InterleaveInit /\ [][InterleaveNext]_vars

\* the other scenario's creation step ran before step i of the log and
\* after the creation step of the scenario that step i belongs to
Overtaken(i) ==
    \E j \in 1..(i - 1) :
        /\ events[j].op \in WriteSteps
        /\ events[j].who # events[i].who
        /\ \E k \in 1..(j - 1) :
            /\ events[k].op \in WriteSteps
            /\ events[k].who = events[i].who

\* C26: when the steps of two scenarios of one file interleave, a reading
\* step (getCardData, clickButtonStatus) acts on the entity of the other
\* scenario exactly when the other scenario's creation step ran between
\* this scenario's creation step and the read: it finds in createdId the
\* id the other scenario wrote.
C26_ReadsOtherScenarioId ==
    \A i \in 1..Len(events) :
        events[i].op \in ReadSteps =>
            /\ Overtaken(i) <=>
                   events[i].id # app.own[events[i].who]
            /\ Overtaken(i) =>
                   \E t \in Scenarios \ {events[i].who} :
                       events[i].id = app.own[t]

\* clickButtonStatus of scenario 1 has acted on the request of scenario 2
C26_Witness ==
    \E i \in 1..Len(events) :
        /\ events[i].op = "action"
        /\ events[i].who = 1
        /\ app.own[2] # Unset
        /\ events[i].id = app.own[2]
        /\ events[i].id # app.own[1]

----------------------------------------------------------------------------
(* test.beforeEach of the Checklist and Leave Requests suites, then the test *)

SetupResponses ==
    { [url |-> <<"h", "s">>, method |-> "POST", status |-> 200],
      [url |-> <<"h", "s">>, method |-> "POST", status |-> 401],
      [url |-> <<"h", "t">>, method |-> "GET", status |-> 200] }

BeforeEachTabFirst ==
    <<"goto", "gotoTab", "tabOpen", "signIn", "signedIn", "body">>

\* the hook in program order, each await with the point where it resumes,
\* and the first step of the test body after it
BeforeEach ==
    <<"goto", "signIn", "signedIn", "gotoTab", "tabOpen", "body">>

SetupStmt == IF cpc \in 1..Len(BeforeEach) THEN BeforeEach[cpc] ELSE "none"

SetupEnd == Len(BeforeEach) + 1

SetupInit ==
    /\ InitCall
    /\ variant = "current"
    /\ prev = <<>>
    /\ cpc = 1
    /\ cargs = [kind |-> "beforeEach"]
    /\ events = <<>>
    /\ app = [kind |-> "setup"]
    /\ cres = NoResult
    /\ createdId = Unset
    /\ mSpec = [url |-> <<>>, method |-> "GET", statusCode |-> 200]
    /\ mResp = NoResponse
    /\ mResult = "unset"

\* await page.goto('/'): the page loads or the navigation throws
BeGoto ==
    /\ SetupStmt = "goto"
    /\ NoCall
    /\ events' = Logged("goto")
    /\ \/ cpc' = cpc + 1 /\ UNCHANGED cres
       \/ cpc' = SetupEnd /\ cres' = Error("NavigationFailed")
    /\ UNCHANGED <<cargs, app, createdId>>

\* await login.signIn(USER, PASSWORD, 200): the wait for POST /api/login
\* and the click on LOGIN
BeSignIn ==
    /\ SetupStmt = "signIn"
    /\ StartCall(LoginIntercepts(200), Selector("#btn"), "omitted")
    /\ events' = Logged("signIn")
    /\ cpc' = cpc + 1
    /\ UNCHANGED <<cargs, app, cres, createdId>>

\* await navigation.gotoTabRequests(navigationTabUrl, 200, selectors.tab...)
BeGotoTab ==
    /\ SetupStmt = "gotoTab"
    /\ StartCall(NavIntercepts(TasksUrl, 200), Selector("#btn"), "omitted")
    /\ events' = Logged("gotoTab")
    /\ cpc' = cpc + 1
    /\ UNCHANGED <<cargs, app, cres, createdId>>

\* the awaited helper returned: the next statement of the hook runs
BeAwaited ==
    /\ SetupStmt \in {"signedIn", "tabOpen"}
    /\ Ended
    /\ result.kind \in {"this", "responses"}
    /\ NoCall
    /\ cpc' = cpc + 1
    /\ UNCHANGED <<cargs, events, app, cres, createdId>>

\* the awaited helper threw: the hook fails and the runner skips the body
BeThrew ==
    /\ SetupStmt \in {"signedIn", "tabOpen"}
    /\ Ended
    /\ result.kind = "error"
    /\ NoCall
    /\ cres' = result
    /\ cpc' = SetupEnd
    /\ UNCHANGED <<cargs, events, app, createdId>>

\* the hook is over: the first step of the test body runs
BeBody ==
    /\ SetupStmt = "body"
    /\ NoCall
    /\ events' = Logged("body")
    /\ cres' = Passed
    /\ cpc' = cpc + 1
    /\ UNCHANGED <<cargs, app, createdId>>

\* the browser observes a response while a helper call is suspended
BeRespond ==
    /\ ~InSyncSection
    /\ ip \in 1..Len(Body)
    /\ Len(traffic) < MaxTraffic
    /\ \E r \in SetupResponses :
        /\ traffic' = Append(traffic, r)
        /\ waits' = Deliver(waits, intercepts, r, Len(traffic) + 1)
    /\ UNCHANGED <<variant, page, dom, intercepts, clickAction,
                   waitForResponses, ip, clickState, clickCalls, clicks,
                   invoked, clickAt, armCalls, endedAt, clock, result>>
    /\ UNCHANGED otherVars

SetupNext ==
    \/ BeGoto
    \/ BeSignIn
    \/ BeGotoTab
    \/ BeAwaited
    \/ BeThrew
    \/ BeBody
    \/ BeRespond
    \/ Arm
    \/ IssueClick
    \/ ClickDone
    \/ ClickFail
    \/ Tick
    \/ Timeout
    \/ Return
    \/ Reject

SetupSpec == SetupInit /\ [][SetupNext]_vars

\* the call of signIn is over and POST /api/login 200 was observed in it
LoginObserved ==
    /\ Len(prev) = 1
    /\ prev[1].intercepts = LoginIntercepts(200)
    /\ prev[1].waits[1].state = "resolved"
    /\ prev[1].waits[1].at \in 1..Len(traffic)
    /\ Matches(traffic[prev[1].waits[1].at], LoginIntercepts(200)[1])

\* the call of gotoTabRequests has observed GET /api/tasks 200
TabObserved ==
    /\ intercepts = NavIntercepts(TasksUrl, 200)
    /\ waits[1].state = "resolved"
    /\ waits[1].at \in (waits[1].armed + 1)..Len(traffic)
    /\ Matches(traffic[waits[1].at], NavIntercepts(TasksUrl, 200)[1])

\* C27: the setup is ordered before the test body. The tab is clicked only
\* after signIn has observed POST /api/login 200, the body runs only after
\* gotoTabRequests has observed GET 200 of the tab's URL, in that order,
\* and when either helper fails the body does not run.
C27_SetupBeforeBody ==
    /\ (intercepts = NavIntercepts(TasksUrl, 200) /\ clickCalls >= 1) =>
        /\ LoginObserved
        /\ prev[1].waits[1].at <= clickAt
    /\ Did("body") =>
        /\ LoginObserved
        /\ TabObserved
        /\ prev[1].waits[1].at < waits[1].at
        /\ \A i \in 1..Len(events) :
            events[i].op = "body" => waits[1].at <= events[i].at
    /\ (cpc = SetupEnd /\ cres.kind = "error") => ~Did("body")
    /\ (cpc = SetupEnd /\ (Len(prev) = 0 \/ ~AllResolved(waits))) =>
        ~Did("body")

\* the body runs; a GET 200 of the tab's URL seen during signIn did not count
C27_Witness ==
    /\ Did("body")
    /\ cres = Passed
    /\ \E k \in 1..waits[1].armed :
        Matches(traffic[k], NavIntercepts(TasksUrl, 200)[1])

----------------------------------------------------------------------------
\* C30: the waits of one call are matched independently of each other: a
\* response the page observes resolves every pending wait whose spec it
\* matches, with the URL matched by substring, and leaves the others as
\* they are, so that a call with N specs may return after fewer than N
\* responses.
C30_OneResponseResolvesAll ==
    [][(Len(traffic') = Len(traffic) + 1 /\ Len(waits') = Len(waits)) =>
        \A i \in 1..Len(waits) :
            IF /\ waits[i].state = "pending"
               /\ Includes(traffic'[Len(traffic')].url, intercepts[i].url)
               /\ traffic'[Len(traffic')].method = intercepts[i].method
               /\ traffic'[Len(traffic')].status = intercepts[i].statusCode
            THEN /\ waits'[i].state = "resolved"
                 /\ waits'[i].resp = traffic'[Len(traffic')]
                 /\ waits'[i].at = Len(traffic')
            ELSE waits'[i] = waits[i]]_vars

\* a call with two identical specs has returned after the single response
\* the page observed, whose URL is longer than the URL of the specs
C30_Witness ==
    /\ result.kind \in {"this", "responses"}
    /\ Len(intercepts) = 2
    /\ intercepts[1] = intercepts[2]
    /\ Len(traffic) = 1
    /\ Len(traffic[1].url) > Len(intercepts[1].url) + 1
    /\ \A i \in 1..2 : waits[i].state = "resolved" /\ waits[i].at = 1

====
